---- MODULE Spec2Model ----
(***************************************************************************)
(* A state-machine model of the adaptive churn-prediction core:            *)
(*   - CustomerSignals / SignalDetector   (recommender/signal_detector.py) *)
(*   - AdaptivePreprocessor / ModelPipeline (pipeline/*.py)                *)
(*   - SchemaValidator                    (validators/schema_validator.py) *)
(*   - SmartPipeline                      (pipeline/smart_pipeline.py)     *)
(* Each component has its own next-state relation and specification; the   *)
(* variables of the other components are left unchanged by it.             *)
(*                                                                         *)
(* Conventions.  An Optional[T] value is a sequence of length 0 (None) or  *)
(* 1.  A Python dict is a sequence of entries in insertion order where the *)
(* order is observable, and a function where it is not.  Probabilities are *)
(* integers in percent (0.70 is 70).  Percentile thresholds are kept       *)
(* multiplied by 4, which makes pandas' linearly interpolated quartiles    *)
(* of integer data exact.                                                  *)
(***************************************************************************)
EXTENDS Integers, Sequences, FiniteSets, TLC

VARIABLES
    cs,          \* a CustomerSignals object used directly by a caller
    detector,    \* a SignalDetector: mapping_result and thresholds
    mp,          \* the ModelPipeline object the caller holds
    files,       \* the artifact files on disk: path -> Optional content
    saves,       \* number of ModelPipeline.save calls that wrote a file
    preprocessor, \* an AdaptivePreprocessor used directly by a caller
    engine,      \* a RecommendationEngine
    validation,  \* the last SchemaValidator.validate call: arguments and result
    recommendations, \* a CustomerRecommendations object used directly by a caller
    callArgs,    \* the arguments chosen at start for the calls to make, if any
    registry,    \* SmartPipeline.registry["models"], in insertion order
    registryFile, \* model_registry.json: Optional registry
    db,          \* the server's uploads and results tables, by process code
    resultFiles, \* the server's result files: process code -> Optional content
    outcome      \* how the last call ended: exception raised and value returned

sigVars == <<cs, detector>>
mpVars == <<mp, files, saves>>
fitVars == <<preprocessor, engine>>
smartVars == <<registry, registryFile>>
serverVars == <<db, resultFiles>>

vars == <<cs, detector, mp, files, saves, preprocessor, engine, validation,
          recommendations, callArgs, registry, registryFile, db, resultFiles, outcome>>

None == <<>>
Some(x) == <<x>>

(***************************************************************************)
(* CustomerSignals                                                         *)
(***************************************************************************)

\* Longest signal list built by direct add_signal calls.
MaxSignals == 5

\* Churn probabilities in percent, on and around every threshold of the code.
Probabilities == {0, 24, 25, 49, 50, 69, 70, 84, 85, 100}

OptProbabilities == {None} \cup {Some(p) : p \in Probabilities}

\* The probabilities a detector is asked about.
DetectorProbabilities ==
    {None} \cup {Some(p) : p \in {24, 25, 49, 50, 69, 70, 84, 85}}

\* Signal.risk_level is a free string; "severe" stands for any unknown tier.
RiskStrings == {"low", "medium", "high", "critical", "severe"}

\* risk_levels.get(s.risk_level, 1)
risk_levels(level) ==
    CASE level = "low" -> 1
      [] level = "medium" -> 2
      [] level = "high" -> 3
      [] level = "critical" -> 4
      [] OTHER -> 1

reverse_map == <<"low", "medium", "high", "critical">>

Max2(a, b) == IF a >= b THEN a ELSE b
Min2(a, b) == IF a <= b THEN a ELSE b

RECURSIVE MaxRisk(_)
\* max((risk_levels.get(s.risk_level, 1) for s in signals), default=1)
MaxRisk(signals) ==
    IF signals = <<>> THEN 1
    ELSE Max2(risk_levels(Head(signals).risk_level), MaxRisk(Tail(signals)))

\* The probability branch of _update_overall_risk.
ProbabilityTier(prob) ==
    IF prob >= 70 THEN "critical"
    ELSE IF prob >= 50 THEN "high"
    ELSE IF prob >= 25 THEN "medium"
    ELSE "low"

SignalTier_EscalateAboveFour(signals) ==
    LET max_risk == MaxRisk(signals)
        bumped == IF Len(signals) > 4 THEN Min2(max_risk + 1, 4) ELSE max_risk
    IN reverse_map[bumped]

\* The fallback branch of _update_overall_risk.
SignalTier(signals) ==
    LET max_risk == MaxRisk(signals)
        bumped == IF Len(signals) >= 4 THEN Min2(max_risk + 1, 4) ELSE max_risk
    IN reverse_map[bumped]

UpdateOverallRisk_SignalsFirst(c) ==
    [c EXCEPT !.overall_risk =
        IF c.signals # <<>> \/ c.churn_probability = None
        THEN SignalTier(c.signals)
        ELSE ProbabilityTier(c.churn_probability[1])]

\* CustomerSignals._update_overall_risk
UpdateOverallRisk(c) ==
    [c EXCEPT !.overall_risk =
        IF c.churn_probability # None
        THEN ProbabilityTier(c.churn_probability[1])
        ELSE SignalTier(c.signals)]

\* The dataclass constructor: fields are stored, nothing is derived.
NewCustomerSignals(prob) ==
    [customer_id |-> None, signals |-> <<>>, overall_risk |-> "low",
     churn_probability |-> prob]

\* CustomerSignals.add_signal
add_signal(c, signal) ==
    UpdateOverallRisk([c EXCEPT !.signals = Append(@, signal)])

\* A Signal.  description, evidence and threshold are texts and numbers that
\* nothing reads back; they are not kept.
MkSignal(type, level, column, value) ==
    [signal_type |-> type, risk_level |-> level, column_involved |-> column,
     value |-> value]

(***************************************************************************)
(* Cells, rows and datasets                                                *)
(***************************************************************************)

\* A cell is a number, a string or NaN; n and s are 0 and "" when unused.
Num(n) == [k |-> "num", n |-> n, s |-> ""]
Str(s) == [k |-> "str", n |-> 0, s |-> s]
NaN == [k |-> "nan", n |-> 0, s |-> ""]

\* A Python list of column names held in Signal.value.
ListValue(items) == [k |-> "list", n |-> 0, s |-> "", items |-> items]

\* pd.to_numeric(text.strip(), errors='coerce') on the strings of the model:
\* a numeric string parses, blank and other text become NaN.
ParseNumeric(s) ==
    CASE s = "0" -> Num(0)
      [] s = "1" -> Num(1)
      [] s = "2" -> Num(2)
      [] s = "3" -> Num(3)
      [] OTHER -> NaN

\* pd.to_numeric(series.replace(r'^\s*$', nan, regex=True), errors='coerce')
\* applied to one cell of the series.
ToNumericCell(cell) ==
    IF cell.k = "str" THEN ParseNumeric(cell.s) ELSE cell

\* str.lower() on the strings of the model.
Lower(s) ==
    CASE s = "Yes" -> "yes"
      [] s = "No" -> "no"
      [] s = "Month-to-month" -> "month-to-month"
      [] s = "Two year" -> "two year"
      [] s = "Churn" -> "churn"
      [] s = "Exited" -> "exited"
      [] OTHER -> s

\* str(value) for a cell.
StrOf(cell) ==
    CASE cell.k = "str" -> cell.s
      [] cell.k = "num" -> ToString(cell.n)
      [] OTHER -> "nan"

\* any(kw in v for kw in ["month", "no ", "none", "basic", "free"]) on the
\* lower-cased strings of the model.
HasLowCommitKeyword(v) ==
    v \in {"month-to-month", "monthly", "no contract", "none", "basic", "free"}

\* A dict as a function; d[k] = v added or overwritten.
EmptyDict == <<>>
DictSet(d, key, v) == (key :> v) @@ d

RECURSIVE SeqToSet(_)
SeqToSet(q) == IF q = <<>> THEN {} ELSE {Head(q)} \cup SeqToSet(Tail(q))

RECURSIVE SortedInsert(_, _)
SortedInsert(q, x) ==
    IF q = <<>> THEN <<x>>
    ELSE IF x <= Head(q) THEN <<x>> \o q
    ELSE <<Head(q)>> \o SortedInsert(Tail(q), x)

RECURSIVE SortNums(_)
SortNums(q) == IF q = <<>> THEN <<>> ELSE SortedInsert(SortNums(Tail(q)), Head(q))

\* The non-NaN numbers of a coerced column, ascending.
NumericValues(column) ==
    LET coerced == [i \in 1..Len(column) |-> ToNumericCell(column[i])]
        kept == SelectSeq(coerced, LAMBDA c : c.k = "num")
    IN SortNums([i \in 1..Len(kept) |-> kept[i].n])

\* Series.quantile(quarters/4) with pandas' default linear interpolation,
\* times 4: position quarters*(n-1)/4 between two neighbours of the sorted
\* values.
Quantile4(sorted, quarters) ==
    LET n == Len(sorted)
        pos4 == quarters * (n - 1)
        lo == pos4 \div 4
        rem == pos4 % 4
    IN IF rem = 0 THEN 4 * sorted[lo + 1]
       ELSE 4 * sorted[lo + 1] + rem * (sorted[lo + 2] - sorted[lo + 1])

(***************************************************************************)
(* SignalDetector                                                          *)
(***************************************************************************)

\* MappingResult.mappings: entries [col, target_type] in insertion order.
MapEntry(col, type) == [col |-> col, target_type |-> type]

\* SignalDetector._get_columns_by_type
ColumnsByType(mapping_result, types) ==
    IF mapping_result = None THEN <<>>
    ELSE LET sel == SelectSeq(mapping_result[1], LAMBDA e : e.target_type \in types)
         IN [i \in 1..Len(sel) |-> sel[i].col]

\* self.thresholds = {}: the keys "<col>_high", "<col>_median", "<col>_low",
\* "<col>_low_commitment" are kept per suffix, 'service_engagement' is None
\* while the key is absent.
EmptyThresholds ==
    [high |-> EmptyDict, median |-> EmptyDict, low |-> EmptyDict,
     low_commitment |-> EmptyDict, service_engagement |-> None]

\* SignalDetector.__init__
NewSignalDetector(mapping_result) ==
    [mapping_result |-> mapping_result, thresholds |-> EmptyThresholds]

RECURSIVE CostThresholds(_, _, _)
\* compute_thresholds, the loop over cost columns
CostThresholds(th, cols, df) ==
    IF cols = <<>> THEN th
    ELSE LET col == Head(cols)
             vals == IF col \in DOMAIN df THEN NumericValues(df[col]) ELSE <<>>
             th1 == IF vals # <<>>
                    THEN [th EXCEPT !.high = DictSet(@, col, Quantile4(vals, 3)),
                                    !.median = DictSet(@, col, Quantile4(vals, 2))]
                    ELSE th
         IN CostThresholds(th1, Tail(cols), df)

RECURSIVE TenureThresholds(_, _, _)
\* compute_thresholds, the loop over tenure columns
TenureThresholds(th, cols, df) ==
    IF cols = <<>> THEN th
    ELSE LET col == Head(cols)
             vals == IF col \in DOMAIN df THEN NumericValues(df[col]) ELSE <<>>
             th1 == IF vals # <<>>
                    THEN [th EXCEPT !.low = DictSet(@, col, Quantile4(vals, 1)),
                                    !.median = DictSet(@, col, Quantile4(vals, 2))]
                    ELSE th
         IN TenureThresholds(th1, Tail(cols), df)

RECURSIVE ContractThresholds(_, _, _)
\* compute_thresholds, the loop over contract columns
ContractThresholds(th, cols, df) ==
    IF cols = <<>> THEN th
    ELSE LET col == Head(cols)
             values == {Lower(StrOf(c)) : c \in SeqToSet(df[col])}
             low_commit == {v \in values : HasLowCommitKeyword(v)}
             th1 == IF col \in DOMAIN df
                    THEN [th EXCEPT !.low_commitment = DictSet(@, col, low_commit)]
                    ELSE th
         IN ContractThresholds(th1, Tail(cols), df)

\* df[col].astype(str).str.lower().isin(['yes', '1', 'true']).mean(), kept as
\* <<number of positives, number of rows>>
AdoptionRate(column) ==
    <<Cardinality({i \in 1..Len(column) :
          Lower(StrOf(column[i])) \in {"yes", "1", "true"}}), Len(column)>>

RECURSIVE ServiceEngagement(_, _, _)
\* compute_thresholds, the loop over binary columns
ServiceEngagement(engagement, cols, df) ==
    IF cols = <<>> THEN engagement
    ELSE LET col == Head(cols)
             e1 == IF col \in DOMAIN df
                   THEN DictSet(engagement, col, AdoptionRate(df[col]))
                   ELSE engagement
         IN ServiceEngagement(e1, Tail(cols), df)

\* SignalDetector.compute_thresholds, when mapping_result is set
compute_thresholds(det, df) ==
    LET m == det.mapping_result
        th1 == CostThresholds(det.thresholds,
                   ColumnsByType(m, {"cost_monthly", "cost_total"}), df)
        th2 == TenureThresholds(th1, ColumnsByType(m, {"tenure"}), df)
        th3 == ContractThresholds(th2, ColumnsByType(m, {"contract"}), df)
        engagement == ServiceEngagement(EmptyDict, ColumnsByType(m, {"binary"}), df)
    IN [det EXCEPT !.thresholds =
           [th3 EXCEPT !.service_engagement = Some(engagement)]]

RECURSIVE check_high_cost(_, _, _, _)
\* SignalDetector._check_high_cost, over the cost columns left to visit
check_high_cost(th, cols, row, result) ==
    IF cols = <<>> THEN result
    ELSE LET col == Head(cols)
             raw == row[col]
             value == IF raw.k = "str" THEN ParseNumeric(raw.s) ELSE raw
             fires == /\ col \in DOMAIN row
                      /\ col \in DOMAIN th.high
                      /\ value.k = "num"
                      /\ 4 * value.n > th.high[col]
             r1 == IF fires
                   THEN add_signal(result, MkSignal("high_cost", "medium", Some(col), Some(value)))
                   ELSE result
         IN check_high_cost(th, Tail(cols), row, r1)

RECURSIVE check_low_tenure_AtOrBelow(_, _, _, _)
\* _check_low_tenure comparing with <= instead of <.
check_low_tenure_AtOrBelow(th, cols, row, out) ==
    IF cols = <<>> \/ out.raised # "" THEN out
    ELSE LET col == Head(cols)
             reached == col \in DOMAIN row /\ col \in DOMAIN th.low
             value == row[col]
             o1 == IF ~reached \/ value.k = "nan" THEN out
                   ELSE IF value.k = "str" THEN [out EXCEPT !.raised = "TypeError"]
                   ELSE IF 4 * value.n <= th.low[col]
                   THEN [out EXCEPT !.result =
                            add_signal(@, MkSignal("low_tenure", "high", Some(col), Some(value)))]
                   ELSE out
         IN check_low_tenure_AtOrBelow(th, Tail(cols), row, o1)

RECURSIVE check_low_tenure(_, _, _, _)
\* SignalDetector._check_low_tenure, over the tenure columns left to visit.
\* The raw value is compared: pd.notna holds of a string, and `str < float`
\* raises TypeError.
check_low_tenure(th, cols, row, out) ==
    IF cols = <<>> \/ out.raised # "" THEN out
    ELSE LET col == Head(cols)
             reached == col \in DOMAIN row /\ col \in DOMAIN th.low
             value == row[col]
             o1 == IF ~reached \/ value.k = "nan" THEN out
                   ELSE IF value.k = "str" THEN [out EXCEPT !.raised = "TypeError"]
                   ELSE IF 4 * value.n < th.low[col]
                   THEN [out EXCEPT !.result =
                            add_signal(@, MkSignal("low_tenure", "high", Some(col), Some(value)))]
                   ELSE out
         IN check_low_tenure(th, Tail(cols), row, o1)

RECURSIVE check_commitment(_, _, _, _)
\* SignalDetector._check_commitment, over the contract columns left to visit
check_commitment(th, cols, row, result) ==
    IF cols = <<>> THEN result
    ELSE LET col == Head(cols)
             fires == /\ col \in DOMAIN row
                      /\ col \in DOMAIN th.low_commitment
                      /\ Lower(StrOf(row[col])) \in th.low_commitment[col]
             r1 == IF fires
                   THEN add_signal(result, MkSignal("no_commitment", "high", Some(col), Some(row[col])))
                   ELSE result
         IN check_commitment(th, Tail(cols), row, r1)

\* missing_popular counting a column with an adoption rate of exactly 0.5 as
\* popular.
MissingPopular_HalfIsPopular(th, cols, row) ==
    LET engagement == IF th.service_engagement = None THEN EmptyDict
                      ELSE th.service_engagement[1]
    IN SelectSeq(cols, LAMBDA col :
           /\ col \in DOMAIN row
           /\ col \in DOMAIN engagement
           /\ 2 * engagement[col][1] >= engagement[col][2]
           /\ Lower(StrOf(row[col])) \in {"no", "0", "false", "none", ""})

\* The popular binary columns the record lacks (missing_popular).
MissingPopular(th, cols, row) ==
    LET engagement == IF th.service_engagement = None THEN EmptyDict
                      ELSE th.service_engagement[1]
    IN SelectSeq(cols, LAMBDA col :
           /\ col \in DOMAIN row
           /\ col \in DOMAIN engagement
           /\ 2 * engagement[col][1] > engagement[col][2]
           /\ Lower(StrOf(row[col])) \in {"no", "0", "false", "none", ""})

\* SignalDetector._check_missing_features
check_missing_features(th, cols, row, result) ==
    IF Len(MissingPopular(th, cols, row)) >= 2
    THEN add_signal(result, MkSignal("missing_features", "medium", None,
                               Some(ListValue(MissingPopular(th, cols, row)))))
    ELSE result

\* SignalDetector.detect_signals: [raised, result]; raised is "" on return.
detect_signals(det, row, churn_probability) ==
    LET m == det.mapping_result
        th == det.thresholds
        r0 == NewCustomerSignals(churn_probability)
        id_cols == ColumnsByType(m, {"id"})
        r1 == IF id_cols # <<>> /\ id_cols[1] \in DOMAIN row
              THEN [r0 EXCEPT !.customer_id = Some(StrOf(row[id_cols[1]]))]
              ELSE r0
        r2 == IF churn_probability # None /\ churn_probability[1] >= 70
              THEN add_signal(r1, MkSignal("high_churn_probability",
                       IF churn_probability[1] >= 85 THEN "critical" ELSE "high", None,
                       Some(Num(churn_probability[1]))))
              ELSE r1
        r3 == check_high_cost(th, ColumnsByType(m, {"cost_monthly", "cost_total"}), row, r2)
        o4 == check_low_tenure(th, ColumnsByType(m, {"tenure"}), row,
                               [raised |-> "", result |-> r3])
        r5 == check_commitment(th, ColumnsByType(m, {"contract"}), row, o4.result)
        r6 == check_missing_features(th, ColumnsByType(m, {"binary"}), row, r5)
    IN IF o4.raised # "" THEN o4
       ELSE [raised |-> "", result |-> UpdateOverallRisk(r6)]

(***************************************************************************)
(* Inputs of the signal detector                                           *)
(***************************************************************************)

SigColumns == {"account", "months", "monthly_fee", "total_fee", "plan", "backup", "support"}

\* The usual mapping of the columns above.
TelcoMapping ==
    <<MapEntry("account", "id"), MapEntry("months", "tenure"),
      MapEntry("monthly_fee", "cost_monthly"), MapEntry("total_fee", "cost_total"),
      MapEntry("plan", "contract"), MapEntry("backup", "binary"),
      MapEntry("support", "binary")>>

\* A mapping with three cost columns and a tenure column the data lacks.
BillingMapping ==
    <<MapEntry("months", "cost_total"), MapEntry("monthly_fee", "cost_monthly"),
      MapEntry("total_fee", "cost_total"), MapEntry("backup", "binary"),
      MapEntry("support", "binary"), MapEntry("age", "tenure")>>

SigMappings == {TelcoMapping, BillingMapping}

\* Records handed to detect_signals.
Rows ==
    [account : {Str("A1")},
     months : {Num(1), Num(3), Str("1"), NaN},
     monthly_fee : {Num(1), Num(3), Str("3")},
     total_fee : {Num(3)},
     plan : {Str("Month-to-month"), Str("Two year")},
     backup : {Str("Yes"), Str("No")},
     support : {Str("No")}]

\* Rows of the training data handed to compute_thresholds.
TrainRows ==
    {[account |-> Str("A1"), months |-> Num(1), monthly_fee |-> Num(1),
      total_fee |-> Num(1), plan |-> Str("Month-to-month"),
      backup |-> Str("Yes"), support |-> Str("Yes")],
     [account |-> Str("A1"), months |-> Num(3), monthly_fee |-> Num(3),
      total_fee |-> Num(3), plan |-> Str("Two year"),
      backup |-> Str("Yes"), support |-> Str("No")],
     [account |-> Str("A1"), months |-> Str("1"), monthly_fee |-> Str("abc"),
      total_fee |-> Num(1), plan |-> Str("Two year"),
      backup |-> Str("No"), support |-> Str("No")]}

\* Most rows of a training dataset.
MaxTrainRows == 2

\* A DataFrame: column name -> the column's cells.
DataFrameOf(rows) ==
    [c \in SigColumns |-> [i \in 1..Len(rows) |-> rows[i][c]]]

TrainingSets ==
    {DataFrameOf(rows) : rows \in UNION {[1..n -> TrainRows] : n \in 1..MaxTrainRows}}

(***************************************************************************)
(* State and operations: CustomerSignals and SignalDetector                *)
(***************************************************************************)

\* How a call ended: the exception raised ("" when it returned) and the
\* CustomerSignals it returned, if any.
Outcome(op, raised, value) == [op |-> op, raised |-> raised, value |-> value]

\* CustomerSignals(churn_probability=p)
CSConstruct(p) ==
    /\ cs' = NewCustomerSignals(p)
    /\ outcome' = Outcome("CustomerSignals", "", None)
    /\ UNCHANGED <<serverVars, detector, mpVars, fitVars, validation, recommendations, callArgs, smartVars>>

\* cs.add_signal(Signal(..., risk_level=level))
CSAddSignal(level) ==
    /\ Len(cs.signals) < MaxSignals
    /\ cs' = add_signal(cs, MkSignal("custom", level, None, None))
    /\ outcome' = Outcome("add_signal", "", None)
    /\ UNCHANGED <<serverVars, detector, mpVars, fitVars, validation, recommendations, callArgs, smartVars>>

\* cs.churn_probability = p: a plain attribute assignment of the dataclass
CSSetProbability(p) ==
    /\ cs' = [cs EXCEPT !.churn_probability = p]
    /\ outcome' = Outcome("set_probability", "", None)
    /\ UNCHANGED <<serverVars, detector, mpVars, fitVars, validation, recommendations, callArgs, smartVars>>

\* SignalDetector(mapping_result)
NewDetector(m) ==
    /\ detector' = NewSignalDetector(m)
    /\ outcome' = Outcome("SignalDetector", "", None)
    /\ UNCHANGED <<serverVars, cs, mpVars, fitVars, validation, recommendations, callArgs, smartVars>>

\* SignalDetector.compute_thresholds(df)
ComputeThresholds(df) ==
    /\ IF detector.mapping_result = None
       THEN /\ outcome' = Outcome("compute_thresholds", "ValueError", None)
            /\ UNCHANGED detector
       ELSE /\ detector' = compute_thresholds(detector, df)
            /\ outcome' = Outcome("compute_thresholds", "", None)
    /\ UNCHANGED <<serverVars, cs, mpVars, fitVars, validation, recommendations, callArgs, smartVars>>

\* SignalDetector.detect_signals(row, churn_probability)
DetectSignals(row, p) ==
    LET out == detect_signals(detector, row, p)
    IN /\ outcome' = Outcome("detect_signals", out.raised,
                            IF out.raised = "" THEN Some(out.result) ELSE None)
       /\ UNCHANGED <<serverVars, sigVars, mpVars, fitVars, validation, recommendations, callArgs, smartVars>>

CSNext ==
    \/ \E p \in OptProbabilities : CSConstruct(p)
    \/ \E level \in RiskStrings : CSAddSignal(level)
    \/ \E p \in OptProbabilities : CSSetProbability(p)

DetectorNext ==
    \/ \E m \in {None} \cup {Some(x) : x \in SigMappings} : NewDetector(m)
    \/ \E df \in TrainingSets : ComputeThresholds(df)
    \/ \E row \in Rows, p \in DetectorProbabilities : DetectSignals(row, p)

(***************************************************************************)
(* AdaptivePreprocessor and ModelPipeline                                  *)
(*                                                                         *)
(* A fitted sklearn object is known by the dataset it was fitted on.  A    *)
(* training dataset is a name; what the code reads of it is tabulated      *)
(* below: the columns its mapping gives the target role, and the first     *)
(* library call that raises on it, if any.                                 *)
(***************************************************************************)

Datasets ==
    {"good1", "good2", "no_target", "bad_features", "bad_split", "bad_fit", "bad_eval"}

\* The columns mapped to ColumnType.TARGET, in mapping order.
TargetColumns(ds) ==
    CASE ds \in {"no_target", "unlabeled"} -> <<>>
      [] ds \in {"good2", "bank5"} -> <<"Exited">>
      [] ds = "bank_two_labels" -> <<"Churn", "Exited">>
      [] ds = "telco_lower" -> <<"churn">>
      [] OTHER -> <<"Churn">>

\* col in df.columns, for the label columns of the model.
HasColumn(ds, col) == col \in SeqToSet(TargetColumns(ds))

\* The first step of train that raises on the dataset: the ColumnTransformer
\* fit, the stratified split, the classifier fit, the evaluation; "" if none.
FailureOf(ds) ==
    CASE ds = "bad_features" -> "pipeline_fit"
      [] ds = "bad_split" -> "split"
      [] ds = "bad_fit" -> "model_fit"
      [] ds = "bad_eval" -> "evaluate"
      [] OTHER -> ""

\* The result of a call: the exception raised ("" on return) and the object's
\* state when the call ended.
Ended(raised, state) == [raised |-> raised, state |-> state]

\* AdaptivePreprocessor.__init__.  feature_columns is known by the dataset
\* whose columns it lists; None stands for the empty list.
NewPreprocessor ==
    [pipeline |-> None, label_encoder |-> None, mapping_result |-> None,
     feature_columns |-> None, target_column |-> None,
     numeric_cols_to_convert |-> None, is_fitted |-> FALSE]

\* AdaptivePreprocessor.build_pipeline: target_column is assigned only when a
\* column has the target role (the last such column wins).
build_pipeline(prep, ds) ==
    LET targets == TargetColumns(ds)
    IN [prep EXCEPT !.mapping_result = Some(ds),
                    !.target_column = IF targets # <<>>
                                      THEN Some(targets[Len(targets)]) ELSE @,
                    !.feature_columns = Some(ds),
                    !.pipeline = Some([built_for |-> ds, fitted |-> FALSE])]

\* AdaptivePreprocessor.fit(df, mapping_result)
fit(prep, ds, with_mapping) ==
    IF ~with_mapping /\ prep.pipeline = None THEN Ended("ValueError", prep)
    ELSE LET p1 == IF with_mapping THEN build_pipeline(prep, ds) ELSE prep
             p2 == [p1 EXCEPT !.numeric_cols_to_convert = Some(ds)]
             p3 == [p2 EXCEPT !.pipeline = Some([built_for |-> p2.pipeline[1].built_for,
                                                 fitted |-> TRUE])]
             p4 == IF p3.target_column # None /\ HasColumn(ds, p3.target_column[1])
                   THEN [p3 EXCEPT !.label_encoder = Some(ds)] ELSE p3
         IN IF p1.feature_columns # Some(ds) THEN Ended("KeyError", p1)
            ELSE IF FailureOf(ds) = "pipeline_fit" THEN Ended("ValueError", p2)
            ELSE Ended("", [p4 EXCEPT !.is_fitted = TRUE])

\* AdaptivePreprocessor.transform: the exception it raises, "" if it returns.
transform(prep) ==
    IF ~prep.is_fitted THEN "ValueError: Preprocessor not fitted"
    ELSE IF prep.pipeline = None THEN "AttributeError"
    ELSE IF ~prep.pipeline[1].fitted THEN "NotFittedError"
    ELSE ""

\* ModelPipeline.__init__
NewModelPipeline ==
    [model |-> None, preprocessor |-> NewPreprocessor, mapping_result |-> None,
     training_result |-> None, is_trained |-> FALSE]

\* train with the trained flag raised on entry instead of at the end.
train_FlagOnEntry(m, ds) ==
    LET m1 == [m EXCEPT !.mapping_result = Some(ds), !.is_trained = TRUE]
        fitted == fit(build_pipeline(m.preprocessor, ds), ds, TRUE)
        m2 == [m1 EXCEPT !.preprocessor = fitted.state]
        target_col == m2.preprocessor.target_column
        m3 == [m2 EXCEPT !.model = Some([trained_on |-> ds, fitted |-> FALSE])]
        m4 == [m2 EXCEPT !.model = Some([trained_on |-> ds, fitted |-> TRUE])]
    IN IF fitted.raised # "" THEN Ended(fitted.raised, m2)
       ELSE IF target_col = None THEN Ended("ValueError", m2)
       ELSE IF ~HasColumn(ds, target_col[1]) THEN Ended("KeyError", m2)
       ELSE IF FailureOf(ds) = "split" THEN Ended("ValueError", m2)
       ELSE IF FailureOf(ds) = "model_fit" THEN Ended("ValueError", m3)
       ELSE IF FailureOf(ds) = "evaluate" THEN Ended("ValueError", m4)
       ELSE Ended("", [m4 EXCEPT !.training_result = Some(ds)])

\* ModelPipeline.train(df, mapping_result)
train(m, ds) ==
    LET m1 == [m EXCEPT !.mapping_result = Some(ds)]
        fitted == fit(build_pipeline(m.preprocessor, ds), ds, TRUE)
        m2 == [m1 EXCEPT !.preprocessor = fitted.state]
        target_col == m2.preprocessor.target_column
        m3 == [m2 EXCEPT !.model = Some([trained_on |-> ds, fitted |-> FALSE])]
        m4 == [m2 EXCEPT !.model = Some([trained_on |-> ds, fitted |-> TRUE])]
    IN IF fitted.raised # "" THEN Ended(fitted.raised, m2)
       ELSE IF target_col = None THEN Ended("ValueError", m2)
       ELSE IF ~HasColumn(ds, target_col[1]) THEN Ended("KeyError", m2)
       ELSE IF FailureOf(ds) = "split" THEN Ended("ValueError", m2)
       ELSE IF FailureOf(ds) = "model_fit" THEN Ended("ValueError", m3)
       ELSE IF FailureOf(ds) = "evaluate" THEN Ended("ValueError", m4)
       ELSE Ended("", [m4 EXCEPT !.training_result = Some(ds), !.is_trained = TRUE])

\* What a returning predict computed with.
Prediction(m) ==
    [features_by |-> m.preprocessor.pipeline[1].built_for,
     classifier |-> m.model[1].trained_on,
     labels_by |-> m.preprocessor.label_encoder[1]]

\* ModelPipeline.predict(df): the ways the call can end.  A classifier fed
\* the features of a preprocessor it was not trained with raises on a shape
\* mismatch or returns, depending on the data.
predict(m) ==
    IF ~m.is_trained THEN {[raised |-> "ValueError: Model not trained"]}
    ELSE IF transform(m.preprocessor) # ""
    THEN {[raised |-> transform(m.preprocessor)]}
    ELSE IF m.model = None THEN {[raised |-> "AttributeError"]}
    ELSE IF ~m.model[1].fitted THEN {[raised |-> "NotFittedError"]}
    ELSE IF m.preprocessor.label_encoder = None THEN {[raised |-> "ValueError"]}
    ELSE IF m.model[1].trained_on # m.preprocessor.pipeline[1].built_for
    THEN {[raised |-> "ValueError"], [raised |-> "", value |-> Prediction(m)]}
    ELSE {[raised |-> "", value |-> Prediction(m)]}

\* The dict ModelPipeline.save dumps at model_path; written_by numbers the
\* save call that wrote the file.
ModelFile(m, written_by) ==
    [kind |-> "model", written_by |-> written_by, model |-> m.model,
     training_result |-> m.training_result, mapping_result |-> m.mapping_result]

\* The dict AdaptivePreprocessor.save dumps: _numeric_cols_to_convert is not
\* part of it.
PreprocessorFile(prep, written_by) ==
    [kind |-> "preprocessor", written_by |-> written_by,
     pipeline |-> prep.pipeline, label_encoder |-> prep.label_encoder,
     feature_columns |-> prep.feature_columns, target_column |-> prep.target_column,
     mapping_result |-> prep.mapping_result, is_fitted |-> prep.is_fitted]

\* AdaptivePreprocessor.load, given the dict read from the file
LoadedPreprocessor(file) ==
    [pipeline |-> file.pipeline, label_encoder |-> file.label_encoder,
     mapping_result |-> file.mapping_result, feature_columns |-> file.feature_columns,
     target_column |-> file.target_column, numeric_cols_to_convert |-> None,
     is_fitted |-> file.is_fitted]

\* ModelPipeline.load, given the dicts read from the two files
LoadedPipeline(model_file, prep_file) ==
    [model |-> model_file.model, preprocessor |-> LoadedPreprocessor(prep_file),
     mapping_result |-> model_file.mapping_result,
     training_result |-> model_file.training_result, is_trained |-> TRUE]

\* Artifact locations.
ModelPaths == {"model_a", "model_b"}
PrepPaths == {"prep_a", "prep_b"}
Paths == ModelPaths \cup PrepPaths

\* Most save calls that write a file.
MaxSaves == 3

\* How the writes of one save call go: joblib.dump raises OSError when the
\* location cannot be written.
WriteResults == {"ok", "model_write_fails", "preprocessor_write_fails"}

\* ModelPipeline(): the caller replaces the pipeline it holds by a new one.
MPConstruct ==
    /\ mp' = NewModelPipeline
    /\ outcome' = Outcome("ModelPipeline", "", None)
    /\ UNCHANGED <<serverVars, sigVars, files, saves, fitVars, validation, recommendations, callArgs, smartVars>>

\* mp.train(df, mapping_result)
MPTrain(ds) ==
    LET r == train(mp, ds)
    IN /\ mp' = r.state
       /\ outcome' = Outcome("train", r.raised, None)
       /\ UNCHANGED <<serverVars, sigVars, files, saves, fitVars, validation, recommendations, callArgs, smartVars>>

\* mp.predict(df)
MPPredict ==
    /\ \E r \in predict(mp) :
          outcome' = Outcome("predict", r.raised,
                             IF r.raised = "" THEN Some(r.value) ELSE None)
    /\ UNCHANGED <<serverVars, sigVars, mpVars, fitVars, validation, recommendations, callArgs, smartVars>>

\* mp.save(model_path, preprocessor_path): the model file is written first,
\* the preprocessor file second.
MPSave(model_path, preprocessor_path, io) ==
    /\ IF ~mp.is_trained
       THEN /\ outcome' = Outcome("save", "ValueError: Model not trained", None)
            /\ UNCHANGED <<serverVars, files, saves>>
       ELSE /\ saves < MaxSaves
            /\ saves' = saves + 1
            /\ LET with_model ==
                       [files EXCEPT ![model_path] = Some(ModelFile(mp, saves'))]
                   with_both ==
                       [with_model EXCEPT ![preprocessor_path] =
                            Some(PreprocessorFile(mp.preprocessor, saves'))]
               IN CASE io = "model_write_fails" ->
                         /\ files' = files
                         /\ outcome' = Outcome("save", "OSError", None)
                    [] io = "preprocessor_write_fails" ->
                         /\ files' = with_model
                         /\ outcome' = Outcome("save", "OSError", None)
                    [] OTHER ->
                         /\ files' = with_both
                         /\ outcome' = Outcome("save", "", None)
    /\ UNCHANGED <<serverVars, sigVars, mp, fitVars, validation, recommendations, callArgs, smartVars>>

\* mp = ModelPipeline.load(model_path, preprocessor_path).  The value of the
\* outcome names the save calls that wrote the two files read.
MPLoad(model_path, preprocessor_path) ==
    LET model_file == files[model_path]
        prep_file == files[preprocessor_path]
    IN /\ IF model_file = None \/ prep_file = None
          THEN /\ outcome' = Outcome("load", "FileNotFoundError", None)
               /\ UNCHANGED mp
          ELSE IF model_file[1].kind # "model" \/ prep_file[1].kind # "preprocessor"
          THEN /\ outcome' = Outcome("load", "KeyError", None)
               /\ UNCHANGED mp
          ELSE /\ mp' = LoadedPipeline(model_file[1], prep_file[1])
               /\ outcome' = Outcome("load", "",
                      Some([model_written_by |-> model_file[1].written_by,
                            preprocessor_written_by |-> prep_file[1].written_by]))
       /\ UNCHANGED <<serverVars, sigVars, files, saves, fitVars, validation, recommendations, callArgs, smartVars>>

\* Training and predicting with one pipeline object.
TrainingNext ==
    \/ MPConstruct
    \/ \E ds \in Datasets : MPTrain(ds)
    \/ MPPredict

\* Saving and loading trained pipelines.
ArtifactsNext ==
    \/ MPConstruct
    \/ \E ds \in {"good1", "good2"} : MPTrain(ds)
    \/ \E model_path \in ModelPaths, preprocessor_path \in PrepPaths, io \in WriteResults :
          MPSave(model_path, preprocessor_path, io)
    \/ \E model_path \in Paths, preprocessor_path \in Paths :
          MPLoad(model_path, preprocessor_path)
    \/ MPPredict

(***************************************************************************)
(* ActionGenerator and RecommendationEngine                                *)
(***************************************************************************)

\* A template is its text up to the placeholder and the placeholder's name
\* ("" when it has none); no template of the code continues after one.
Template(text, placeholder) == [text |-> text, placeholder |-> placeholder]

\* self.templates.get(signal_type, [])[:2], from
\* {**ACTION_TEMPLATES, **EXTENDED_TEMPLATES}
TopTemplates(signal_type) ==
    CASE signal_type = "high_churn_probability" ->
           <<Template("Immediate attention required - high churn risk", ""),
             Template("Schedule proactive customer outreach", "")>>
      [] signal_type = "high_cost" ->
           <<Template("Review pricing plan for optimization opportunities", ""),
             Template("Consider loyalty discount: ", "discount_range")>>
      [] signal_type = "low_tenure" ->
           <<Template("Assign dedicated onboarding support", ""),
             Template("Initiate welcome program touchpoints", "")>>
      [] signal_type = "no_commitment" ->
           <<Template("Present long-term commitment benefits", ""),
             Template("Offer upgrade incentive: annual plan discount", "")>>
      [] signal_type = "missing_features" ->
           <<Template("Recommend additional services: ", "missing_services"),
             Template("Offer free trial of value-add features", "")>>
      [] signal_type = "low_engagement" ->
           <<Template("Trigger re-engagement campaign", ""),
             Template("Offer usage incentives", "")>>
      [] OTHER -> <<>>

RECURSIVE Join(_)
\* ", ".join(items)
Join(items) ==
    IF items = <<>> THEN ""
    ELSE IF Len(items) = 1 THEN items[1]
    ELSE items[1] \o ", " \o Join(Tail(items))

\* str.strip() on the texts a template can render to.
Strip(text) ==
    CASE text = "Recommend additional services: " -> "Recommend additional services:"
      [] text = "Consider loyalty discount: " -> "Consider loyalty discount:"
      [] OTHER -> text

\* ActionGenerator._substitute_variables: a placeholder without a
\* replacement is removed.
substitute_variables(template, signal) ==
    LET replacement ==
            CASE template.placeholder = "discount_range" -> "10-20%"
              [] template.placeholder = "missing_services"
                     /\ signal.value # None /\ signal.value[1].k = "list" ->
                   Join(SubSeq(signal.value[1].items, 1,
                               Min2(3, Len(signal.value[1].items))))
              [] OTHER -> ""
    IN Strip(template.text \o replacement)

\* ActionGenerator.RISK_TO_PRIORITY.get(risk_level, "medium")
RISK_TO_PRIORITY(risk_level) ==
    CASE risk_level = "low" -> "low"
      [] risk_level = "medium" -> "medium"
      [] risk_level = "high" -> "high"
      [] risk_level = "critical" -> "urgent"
      [] OTHER -> "medium"

\* ActionGenerator._generate_signal_actions
generate_signal_actions(signal) ==
    LET templates == TopTemplates(signal.signal_type)
    IN [i \in 1..Len(templates) |->
           [action_type |-> signal.signal_type,
            description |-> substitute_variables(templates[i], signal),
            priority |-> RISK_TO_PRIORITY(signal.risk_level),
            signal_type |-> signal.signal_type]]

\* priority_levels.get(priority, 1) of CustomerRecommendations
priority_levels(priority) ==
    CASE priority = "medium" -> 2
      [] priority = "high" -> 3
      [] priority = "urgent" -> 4
      [] OTHER -> 1

RECURSIVE MaxPriority(_)
MaxPriority(actions) ==
    IF actions = <<>> THEN 1
    ELSE Max2(priority_levels(Head(actions).priority), MaxPriority(Tail(actions)))

\* _update_priority taking the priority of the action added last.
update_priority_LastAction(recs) ==
    [recs EXCEPT !.priority_level =
        IF recs.actions = <<>> THEN "low"
        ELSE recs.actions[Len(recs.actions)].priority]

\* CustomerRecommendations._update_priority
update_priority(recs) ==
    [recs EXCEPT !.priority_level =
        CASE MaxPriority(recs.actions) = 4 -> "urgent"
          [] MaxPriority(recs.actions) = 3 -> "high"
          [] MaxPriority(recs.actions) = 2 -> "medium"
          [] OTHER -> "low"]

\* CustomerRecommendations(customer_id=...)
NewCustomerRecommendations(customer_id) ==
    [customer_id |-> customer_id, actions |-> <<>>, summary |-> [kind |-> "empty"],
     priority_level |-> "low", seen_descriptions |-> {}]

\* add_action without the test of _seen_descriptions.
add_action_NoDedup(recs, action) ==
    update_priority([recs EXCEPT !.seen_descriptions = @ \cup {action.description},
                                 !.actions = Append(@, action)])

\* CustomerRecommendations.add_action
add_action(recs, action) ==
    IF action.description \in recs.seen_descriptions THEN recs
    ELSE update_priority([recs EXCEPT !.seen_descriptions = @ \cup {action.description},
                                      !.actions = Append(@, action)])

RECURSIVE AddActions(_, _)
AddActions(recs, actions) ==
    IF actions = <<>> THEN recs
    ELSE AddActions(add_action(recs, Head(actions)), Tail(actions))

\* The sort key of generate_actions; an unknown tier sorts last.
SortRank(signal) ==
    CASE signal.risk_level = "critical" -> 4
      [] signal.risk_level = "high" -> 3
      [] signal.risk_level = "medium" -> 2
      [] signal.risk_level = "low" -> 1
      [] OTHER -> 0

\* sorted(signals, key=..., reverse=True): stable, highest tier first
SortedSignals(signals) ==
    LET of(rank) == SelectSeq(signals, LAMBDA sg : SortRank(sg) = rank)
    IN of(4) \o of(3) \o of(2) \o of(1) \o of(0)

\* ActionGenerator._generate_summary.  The sentence is kept as what it is
\* built from; the text lists at most three of signal_types.
generate_summary(signals, recs) ==
    IF signals.signals = <<>> THEN [kind |-> "no_risk"]
    ELSE [kind |-> "risk", risk |-> signals.overall_risk,
          probability |-> signals.churn_probability,
          signal_types |-> {signals.signals[i].signal_type : i \in DOMAIN signals.signals},
          actions |-> Len(recs.actions)]

RECURSIVE AddSignalActions(_, _)
AddSignalActions(recs, signals) ==
    IF signals = <<>> THEN recs
    ELSE AddSignalActions(AddActions(recs, generate_signal_actions(Head(signals))),
                          Tail(signals))

\* ActionGenerator.generate_actions
generate_actions(customer_signals) ==
    LET recs == AddSignalActions(NewCustomerRecommendations(customer_signals.customer_id),
                                 SortedSignals(customer_signals.signals))
    IN [recs EXCEPT !.summary = generate_summary(customer_signals, recs)]

\* RecommendationEngine.__init__; without a semantic collaborator the engine
\* has no llm_engine and domain_context stays None.
NewRecommendationEngine(mapping_result) ==
    [signal_detector |-> NewSignalDetector(mapping_result),
     mapping_result |-> mapping_result, is_fitted |-> FALSE]

\* RecommendationEngine.fit(df, mapping_result)
engine_fit(e, df, mapping_result) ==
    LET e1 == IF mapping_result # None
              THEN [e EXCEPT !.mapping_result = mapping_result,
                             !.signal_detector.mapping_result = mapping_result]
              ELSE e
    IN IF e1.mapping_result = None THEN Ended("ValueError", e1)
       ELSE Ended("", [e1 EXCEPT !.signal_detector = compute_thresholds(@, df),
                                 !.is_fitted = TRUE])

\* RecommendationEngine.recommend(row, churn_probability, churn_prediction):
\* [raised, value]
recommend(e, row, churn_probability, churn_prediction) ==
    LET detected == detect_signals(e.signal_detector, row, churn_probability)
        customer_signals == detected.result
        recs == generate_actions(customer_signals)
    IN IF ~e.is_fitted THEN [raised |-> "ValueError: Engine not fitted"]
       ELSE IF detected.raised # "" THEN [raised |-> detected.raised]
       ELSE [raised |-> "",
             value |->
               [customer_id |-> customer_signals.customer_id,
                churn_probability |-> churn_probability,
                churn_prediction |->
                    IF churn_prediction # None /\ churn_prediction[1] # ""
                    THEN churn_prediction[1]
                    ELSE IF churn_probability # None /\ churn_probability[1] >= 50
                    THEN "Yes" ELSE "No",
                risk_level |-> customer_signals.overall_risk,
                signals |-> [i \in DOMAIN customer_signals.signals |->
                                [type |-> customer_signals.signals[i].signal_type,
                                 risk |-> customer_signals.signals[i].risk_level]],
                recommendations |-> [i \in DOMAIN recs.actions |->
                                [action |-> recs.actions[i].description,
                                 priority |-> recs.actions[i].priority,
                                 type |-> recs.actions[i].action_type]],
                summary |-> recs.summary,
                priority |-> recs.priority_level]]

RECURSIVE SumSeq(_)
SumSeq(q) == IF q = <<>> THEN 0 ELSE Head(q) + SumSeq(Tail(q))

\* round(a / n) for n > 0; a half does not occur for the batches of the
\* model.
RoundDiv(a, n) == (2 * a + n) \div (2 * n)

\* RecommendationEngine.get_summary_statistics(recommendations): [raised,
\* value].  Probabilities are in percent; avg_churn_probability is in units
\* of 0.0001 (round(., 4)), avg_signals_per_customer in units of 0.01, the
\* risk percentages in units of 0.1%.
get_summary_statistics(recs) ==
    LET total == Len(recs)
        tiers == {"low", "medium", "high", "critical"}
        risk_dist == [tier \in tiers |->
                        Cardinality({i \in DOMAIN recs : recs[i].risk_level = tier})]
        types == UNION {{recs[i].signals[j].type : j \in DOMAIN recs[i].signals} :
                           i \in DOMAIN recs}
        signal_counts ==
            [type \in types |->
                SumSeq([i \in DOMAIN recs |->
                          Cardinality({j \in DOMAIN recs[i].signals :
                                          recs[i].signals[j].type = type})])]
        total_signals == SumSeq([i \in DOMAIN recs |-> Len(recs[i].signals)])
        \* [r.churn_probability for r in recommendations if r.churn_probability]
        with_prob == SelectSeq(recs, LAMBDA r : /\ r.churn_probability # None
                                                /\ r.churn_probability[1] # 0)
        probs == [i \in DOMAIN with_prob |-> with_prob[i].churn_probability[1]]
    IN IF total = 0 THEN [raised |-> "ZeroDivisionError"]
       ELSE [raised |-> "",
             value |->
               [total_customers |-> total,
                risk_distribution |-> risk_dist,
                risk_percentages |-> [tier \in tiers |->
                                        RoundDiv(1000 * risk_dist[tier], total)],
                high_risk_count |-> risk_dist["high"] + risk_dist["critical"],
                signal_frequency |-> signal_counts,
                avg_signals_per_customer |-> RoundDiv(100 * total_signals, total),
                avg_churn_probability |->
                    IF probs = <<>> THEN 0
                    ELSE RoundDiv(100 * SumSeq(probs), Len(probs)),
                customers_above_70pct |->
                    Cardinality({i \in DOMAIN probs : probs[i] >= 70})]]

RECURSIVE recommend_batch(_, _, _, _)
\* RecommendationEngine.recommend_batch(df, churn_probabilities,
\* churn_predictions), over the rows in order: [raised, value]
recommend_batch(e, rows, churn_probabilities, churn_predictions) ==
    IF rows = <<>> THEN [raised |-> "", value |-> <<>>]
    ELSE LET Outputs(first, rest) ==
                 IF first.raised # "" THEN [raised |-> first.raised]
                 ELSE IF rest.raised # "" THEN rest
                 ELSE [raised |-> "", value |-> <<first.value>> \o rest.value]
         IN CHOOSE outputs \in
                {Outputs(first, rest) :
                    first \in {recommend(e, Head(rows), Some(Head(churn_probabilities)),
                                         Some(Head(churn_predictions)))},
                    rest \in {recommend_batch(e, Tail(rows), Tail(churn_probabilities),
                                              Tail(churn_predictions))}} : TRUE

\* RecommendationEngine.to_dataframe: one record per output.  The rendered
\* strings are kept as the lists they join: the signal types, or "None
\* detected"; the first three actions with their priority, or "No action
\* needed".
to_dataframe(recs) ==
    [i \in DOMAIN recs |->
        [customer_id |-> recs[i].customer_id,
         churn_probability |-> recs[i].churn_probability,
         churn_prediction |-> recs[i].churn_prediction,
         risk_level |-> recs[i].risk_level,
         priority |-> recs[i].priority,
         churn_signals |->
            IF recs[i].signals = <<>> THEN <<"None detected">>
            ELSE [j \in DOMAIN recs[i].signals |-> recs[i].signals[j].type],
         recommendations |->
            IF recs[i].recommendations = <<>> THEN <<"No action needed">>
            ELSE [j \in 1..Min2(3, Len(recs[i].recommendations)) |->
                     <<recs[i].recommendations[j].priority,
                       recs[i].recommendations[j].action>>],
         summary |-> recs[i].summary]]

\* output_df = df.copy(): the rows in order, and the columns added since, by
\* name.
CopyOf(rows) == [rows |-> rows, added |-> EmptyDict]

\* output_df[name] = values
WithColumn(output_df, name, values) ==
    [output_df EXCEPT !.added = DictSet(@, name, values)]

\* prediction_labels of PredictionResult at the threshold 0.5
PredictionLabels(probabilities) ==
    [i \in DOMAIN probabilities |-> IF probabilities[i] >= 50 THEN "Yes" ELSE "No"]

\* rec_engine = RecommendationEngine(mapping_result); rec_engine.fit(df,
\* mapping_result); rec_engine.recommend_batch(df, probabilities, labels);
\* rec_engine.to_dataframe(recommendations): [raised, value]
RecommendationFrame(mapping_result, rows, probabilities) ==
    LET Rendered(batch) ==
            IF batch.raised # "" THEN [raised |-> batch.raised]
            ELSE CHOOSE rec_df \in
                     {[raised |-> "", value |-> to_dataframe(recs)] :
                         recs \in {batch.value}} : TRUE
        Batch(fitted) ==
            IF fitted.raised # "" THEN [raised |-> fitted.raised]
            ELSE CHOOSE rec_df \in
                     {Rendered(batch) :
                         batch \in {recommend_batch(fitted.state, rows, probabilities,
                                                    PredictionLabels(probabilities))}} : TRUE
    IN CHOOSE rec_df \in
           {Batch(fitted) :
               fitted \in {engine_fit(NewRecommendationEngine(Some(mapping_result)),
                                      DataFrameOf(rows), Some(mapping_result))}} : TRUE

\* The column of rec_df by name
ColumnOf(rec_df, name) == [i \in DOMAIN rec_df |-> rec_df[i][name]]

\* output_df with Churn_Probability and Churn_Prediction
Scored(rows, probabilities) ==
    WithColumn(WithColumn(CopyOf(rows), "Churn_Probability", probabilities),
               "Churn_Prediction", PredictionLabels(probabilities))

\* main.predict with include_recommendations, from the prediction on: the
\* exception raised, if any, and the frame written to output_path.
main_predict(mapping_result, rows, probabilities) ==
    LET Written(rec_df) ==
            IF rec_df.raised # "" THEN [raised |-> rec_df.raised, written |-> None]
            ELSE [raised |-> "",
                  written |->
                    Some(WithColumn(WithColumn(WithColumn(Scored(rows, probabilities),
                        "Risk_Level", ColumnOf(rec_df.value, "risk_level")),
                        "Churn_Signals", ColumnOf(rec_df.value, "churn_signals")),
                        "Recommendations", ColumnOf(rec_df.value, "recommendations")))]
    IN CHOOSE r \in
           {Written(rec_df) :
               rec_df \in {RecommendationFrame(mapping_result, rows, probabilities)}} : TRUE

\* SmartPipeline._run_prediction with an output_path, from the prediction on
run_prediction_export(mapping_result, rows, probabilities) ==
    LET Written(rec_df) ==
            IF rec_df.raised # "" THEN [raised |-> rec_df.raised, written |-> None]
            ELSE [raised |-> "",
                  written |->
                    Some(WithColumn(WithColumn(Scored(rows, probabilities),
                        "Risk_Level", ColumnOf(rec_df.value, "risk_level")),
                        "Recommendations", ColumnOf(rec_df.value, "recommendations")))]
    IN CHOOSE r \in
           {Written(rec_df) :
               rec_df \in {RecommendationFrame(mapping_result, rows, probabilities)}} : TRUE

\* server.process_file, from the prediction on: a failure of the
\* recommendation step is caught and the frame is written as it is; the
\* upload's status becomes "completed".
process_file_export(mapping_result, rows, probabilities) ==
    LET Written(rec_df) ==
            [raised |-> "",
             written |->
               Some(IF rec_df.raised # "" THEN Scored(rows, probabilities)
                    ELSE WithColumn(WithColumn(WithColumn(Scored(rows, probabilities),
                        "Risk_Level", ColumnOf(rec_df.value, "risk_level")),
                        "Churn_Signals", ColumnOf(rec_df.value, "churn_signals")),
                        "Recommendations", ColumnOf(rec_df.value, "recommendations")))]
    IN CHOOSE r \in
           {Written(rec_df) :
               rec_df \in {RecommendationFrame(mapping_result, rows, probabilities)}} : TRUE

\* AdaptivePreprocessor()
PrepConstruct ==
    /\ preprocessor' = NewPreprocessor
    /\ outcome' = Outcome("AdaptivePreprocessor", "", None)
    /\ UNCHANGED <<serverVars, sigVars, mpVars, engine, validation, recommendations, callArgs, smartVars>>

\* preprocessor.build_pipeline(df, mapping_result)
PrepBuildPipeline(ds) ==
    /\ preprocessor' = build_pipeline(preprocessor, ds)
    /\ outcome' = Outcome("build_pipeline", "", None)
    /\ UNCHANGED <<serverVars, sigVars, mpVars, engine, validation, recommendations, callArgs, smartVars>>

\* preprocessor.fit(df, mapping_result), mapping_result given or None
PrepFit(ds, with_mapping) ==
    LET r == fit(preprocessor, ds, with_mapping)
    IN /\ preprocessor' = r.state
       /\ outcome' = Outcome("fit", r.raised, None)
       /\ UNCHANGED <<serverVars, sigVars, mpVars, engine, validation, recommendations, callArgs, smartVars>>

\* preprocessor.transform(df)
PrepTransform ==
    /\ outcome' = Outcome("transform", transform(preprocessor), None)
    /\ UNCHANGED <<serverVars, sigVars, mpVars, fitVars, validation, recommendations, callArgs, smartVars>>

\* RecommendationEngine(mapping_result)
EngineConstruct(m) ==
    /\ engine' = NewRecommendationEngine(m)
    /\ outcome' = Outcome("RecommendationEngine", "", None)
    /\ UNCHANGED <<serverVars, sigVars, mpVars, preprocessor, validation, recommendations, callArgs, smartVars>>

\* engine.fit(df, mapping_result)
EngineFit(df, m) ==
    LET r == engine_fit(engine, df, m)
    IN /\ engine' = r.state
       /\ outcome' = Outcome("engine_fit", r.raised, None)
       /\ UNCHANGED <<serverVars, sigVars, mpVars, preprocessor, validation, recommendations, callArgs, smartVars>>

\* engine.recommend(row, churn_probability, churn_prediction)
EngineRecommend(row, p, churn_prediction) ==
    LET r == recommend(engine, row, p, churn_prediction)
    IN /\ outcome' = Outcome("recommend", r.raised,
                             IF r.raised = "" THEN Some(r.value) ELSE None)
       /\ UNCHANGED <<serverVars, sigVars, mpVars, fitVars, validation, recommendations, callArgs, smartVars>>

\* Most outputs in a batch handed to get_summary_statistics.
MaxBatch == 3

\* RecommendationOutput values, as far as the statistics read them: no
\* probability or one of 0, 0.4, 0.7 and 0.9, the risk level that goes with
\* it, no signal or one.
BatchOutputs ==
    {[churn_probability |-> p,
      risk_level |-> IF p = None THEN (IF signals = <<>> THEN "low" ELSE "medium")
                     ELSE ProbabilityTier(p[1]),
      signals |-> signals] :
        p \in {None, Some(0), Some(40), Some(70), Some(90)},
        signals \in {<<>>, <<[type |-> "high_cost", risk |-> "medium"]>>}}

Batches == UNION {[1..n -> BatchOutputs] : n \in 0..MaxBatch}

\* engine.get_summary_statistics(recommendations), on the batch chosen at the
\* start
GetSummaryStatistics ==
    /\ callArgs # None
    /\ outcome.op = "init"
    /\ LET r == get_summary_statistics(callArgs[1].recommendations)
       IN outcome' = Outcome("get_summary_statistics", r.raised,
                             IF r.raised = "" THEN Some(r.value) ELSE None)
    /\ UNCHANGED <<serverVars, sigVars, mpVars, fitVars, validation, recommendations, callArgs,
                   smartVars>>

StatisticsNext == GetSummaryStatistics

\* The records of the frames that are scored and exported.
ExportRows ==
    [account : {Str("A1")}, months : {Num(1), Str("abc")}, monthly_fee : {Num(3)},
     total_fee : {Num(3)}, plan : {Str("Two year")},
     backup : {Str("Yes"), Str("No")}, support : {Str("No")}]

\* Frames of one or two records, with the probabilities predicted for them.
ExportCalls ==
    UNION {[path : {"main.predict", "_run_prediction", "process_file"},
            df : [1..n -> ExportRows], probabilities : [1..n -> {20, 90}]] :
              n \in 1..2}

\* One of the three scoring paths, from the prediction on, on the frame
\* chosen at the start.
Export ==
    /\ callArgs # None
    /\ outcome.op = "init"
    /\ LET call == callArgs[1]
       IN \E r \in {CASE call.path = "main.predict" ->
                        main_predict(TelcoMapping, call.df, call.probabilities)
                    [] call.path = "_run_prediction" ->
                        run_prediction_export(TelcoMapping, call.df, call.probabilities)
                    [] OTHER ->
                        process_file_export(TelcoMapping, call.df, call.probabilities)} :
             outcome' = Outcome(call.path, r.raised, r.written)
    /\ UNCHANGED <<serverVars, sigVars, mpVars, fitVars, validation, recommendations, callArgs,
                   smartVars>>

ExportNext == Export

\* The calls of a caller that builds an engine, fits it and asks for one
\* customer's recommendations: the training data, the record and the
\* predicted probability (a percentage), if any.
RecommendCalls ==
    [df : TrainingSets, row : Rows,
     churn_probability : {None, Some(20), Some(50), Some(60), Some(70)}]

\* engine = RecommendationEngine(mapping_result); engine.fit(df);
\* engine.recommend(row, churn_probability)
RecommendNext ==
    \/ /\ callArgs # None /\ outcome.op = "init"
       /\ EngineConstruct(Some(TelcoMapping))
    \/ /\ callArgs # None /\ outcome.op = "RecommendationEngine"
       /\ EngineFit(callArgs[1].df, None)
    \/ /\ callArgs # None /\ outcome.op = "engine_fit"
       /\ EngineRecommend(callArgs[1].row, callArgs[1].churn_probability, None)

\* The records the engine is asked about in FittedNext.
EngineRows ==
    {row \in Rows : row.monthly_fee = Num(3) /\ row.backup = Str("No")
                    /\ row.plan = Str("Month-to-month")
                    /\ row.months \in {Num(1), Str("1")}}

\* The training data the engine is fitted on in FittedNext.
EngineFrames ==
    {df \in TrainingSets : Len(df.months) = 2 /\ df.months[1] = Num(3)
                              /\ df.months[2] # Num(3)}

\* The three fitted components in use by one caller: a pipeline that is
\* trained, saved and loaded, a preprocessor, a recommendation engine.
FittedNext ==
    \/ MPConstruct
    \/ \E ds \in {"good1", "bad_fit"} : MPTrain(ds)
    \/ MPPredict
    \/ MPSave("model_a", "prep_a", "ok")
    \/ MPLoad("model_a", "prep_a")
    \/ PrepConstruct
    \/ \E ds \in {"good1", "bad_features"} : PrepBuildPipeline(ds)
    \/ \E ds \in {"good1", "bad_features"}, with_mapping \in BOOLEAN :
          PrepFit(ds, with_mapping)
    \/ PrepTransform
    \/ \E m \in {None, Some(TelcoMapping)} : EngineConstruct(m)
    \/ \E df \in EngineFrames, m \in {None, Some(TelcoMapping)} : EngineFit(df, m)
    \/ \E row \in EngineRows, p \in {None, Some(70)}, churn_prediction \in {None} :
          EngineRecommend(row, p, churn_prediction)

(***************************************************************************)
(* A CustomerRecommendations object and the ActionGenerator in use         *)
(***************************************************************************)

\* Most actions a caller adds to the recommendations it holds.
MaxActions == 3

\* Signals handed to the generator.
RecSignals ==
    {MkSignal("low_tenure", "high", Some("tenure"), Some(Num(1))),
     MkSignal("high_cost", "medium", Some("MonthlyCharges"), Some(Num(9))),
     MkSignal("high_cost", "medium", Some("TotalCharges"), Some(Num(90))),
     MkSignal("missing_features", "medium", None,
              Some(ListValue(<<"OnlineBackup", "TechSupport">>))),
     MkSignal("high_churn_probability", "critical", None, Some(Num(90))),
     MkSignal("low_engagement", "low", None, None)}

\* Signal lists of a customer: up to two signals, and the same list twice over.
RecSignalLists ==
    LET short == {<<>>} \cup {<<a>> : a \in RecSignals}
                        \cup {<<a, b>> : a \in RecSignals, b \in RecSignals}
    IN short \cup {q \o q : q \in short}

\* Actions a caller adds by hand: any of four descriptions at any priority.
RecActions ==
    [action_type : {"custom"},
     description : {"Call the customer", "Offer a discount",
                    "Assign dedicated onboarding support"},
     priority : {"low", "medium", "high", "urgent"},
     signal_type : {"custom"}]

\* CustomerRecommendations()
RecsConstruct ==
    /\ recommendations' = NewCustomerRecommendations(None)
    /\ outcome' = Outcome("CustomerRecommendations", "", None)
    /\ UNCHANGED <<serverVars, sigVars, mpVars, fitVars, validation, callArgs, smartVars>>

\* recommendations.add_action(action); the value of the outcome is the
\* argument.
RecsAddAction(action) ==
    /\ Len(recommendations.actions) < MaxActions
    /\ recommendations' = add_action(recommendations, action)
    /\ outcome' = Outcome("add_action", "", Some(action))
    /\ UNCHANGED <<serverVars, sigVars, mpVars, fitVars, validation, callArgs, smartVars>>

\* recommendations = generator.generate_actions(CustomerSignals(signals));
\* the value of the outcome is the signal list.
GenerateActions(signals) ==
    LET customer_signals ==
            UpdateOverallRisk([NewCustomerSignals(None) EXCEPT !.signals = signals])
    IN /\ recommendations' = generate_actions(customer_signals)
       /\ outcome' = Outcome("generate_actions", "", Some(signals))
       /\ UNCHANGED <<serverVars, sigVars, mpVars, fitVars, validation, callArgs, smartVars>>

RecommendationsNext ==
    \/ RecsConstruct
    \/ \E action \in RecActions : RecsAddAction(action)
    \/ \E signals \in RecSignalLists : GenerateActions(signals)

(***************************************************************************)
(* SchemaValidator                                                         *)
(*                                                                         *)
(* A dataset is known to validate by what validate reads of it: its shape, *)
(* the value counts of its label column, its missing cells and duplicate   *)
(* rows, and per numeric column the findings of _check_data_quality.  A    *)
(* message is [kind, about]: the sentence it is and the role or column it  *)
(* names.  The quality score is kept multiplied by the number of cells.    *)
(***************************************************************************)

REQUIRED_TYPES == <<"target", "tenure">>
RECOMMENDED_TYPES == <<"cost_monthly", "contract">>

Message(kind, about) == [kind |-> kind, about |-> about]

\* ValidationResult()
NewValidationResult ==
    [is_valid |-> TRUE, errors |-> <<>>, warnings |-> <<>>,
     mapping_result |-> None, data_quality_score |-> 0]

\* {m.target_type for m in mapping_result.mappings.values()}
MappedTypes(mappings) == {mappings[i].target_type : i \in DOMAIN mappings}

RECURSIVE MinSeq(_)
MinSeq(q) == IF Len(q) = 1 THEN Head(q) ELSE Min2(Head(q), MinSeq(Tail(q)))

\* len(df)
RowCount(df) == df.target_missing + SumSeq(df.target_counts)

\* df.size
CellCount(df) == RowCount(df) * df.ncols

\* The required-types check with tenure left out of REQUIRED_TYPES.
CheckRequired_TenureOptional(result, mapped_types) ==
    IF "target" \notin mapped_types
    THEN [result EXCEPT !.is_valid = FALSE,
                        !.errors = Append(@, Message("missing_required", "target"))]
    ELSE result

RECURSIVE CheckRequiredFrom(_, _, _)
CheckRequiredFrom(result, types, mapped_types) ==
    IF types = <<>> THEN result
    ELSE CheckRequiredFrom(
             IF Head(types) \notin mapped_types
             THEN [result EXCEPT !.is_valid = FALSE,
                      !.errors = Append(@, Message("missing_required", Head(types)))]
             ELSE result,
             Tail(types), mapped_types)

\* validate, step 2: required column types
CheckRequired(result, mapped_types) ==
    CheckRequiredFrom(result, REQUIRED_TYPES, mapped_types)

RECURSIVE CheckRecommendedFrom(_, _, _, _)
CheckRecommendedFrom(result, types, mapped_types, strict) ==
    IF types = <<>> THEN result
    ELSE LET msg == Message("missing_recommended", Head(types))
             r1 == IF Head(types) \in mapped_types THEN result
                   ELSE IF strict
                   THEN [result EXCEPT !.is_valid = FALSE, !.errors = Append(@, msg)]
                   ELSE [result EXCEPT !.warnings = Append(@, msg)]
         IN CheckRecommendedFrom(r1, Tail(types), mapped_types, strict)

\* validate, step 3: recommended column types
CheckRecommended(result, mapped_types, strict) ==
    CheckRecommendedFrom(result, RECOMMENDED_TYPES, mapped_types, strict)

\* SchemaValidator._validate_target_column, on the label column's counts
validate_target_column(df) ==
    LET counts == df.target_counts
        errors == IF df.target_missing > 0
                  THEN <<Message("target_missing_values", "")>> ELSE <<>>
        not_binary == IF Len(counts) > 2
                      THEN <<Message("target_not_binary", "")>> ELSE <<>>
        imbalance == IF Len(counts) = 2 /\ 100 * MinSeq(counts) < 10 * SumSeq(counts)
                     THEN <<Message("class_imbalance", "")>> ELSE <<>>
    IN [errors |-> errors, warnings |-> not_binary \o imbalance]

\* Target errors appended without clearing is_valid.
ApplyTargetValidation_KeepsValid(result, target_validation) ==
    [result EXCEPT !.errors = @ \o target_validation.errors,
                   !.warnings = @ \o target_validation.warnings]

\* validate, step 4, once the label column is read
ApplyTargetValidation(result, target_validation) ==
    [result EXCEPT !.errors = @ \o target_validation.errors,
                   !.warnings = @ \o target_validation.warnings,
                   !.is_valid = IF target_validation.errors # <<>> THEN FALSE ELSE @]

RECURSIVE NumericWarnings(_, _)
\* _check_data_quality, the loop over the mapped columns
NumericWarnings(mappings, df) ==
    IF mappings = <<>> THEN <<>>
    ELSE LET col == Head(mappings).col
             checked == /\ Head(mappings).target_type \in
                               {"cost_monthly", "cost_total", "tenure", "numeric"}
                        /\ col \in DOMAIN df.columns
             q == df.columns[col]
             here == IF ~checked THEN <<>>
                     ELSE IF ~q.numeric_dtype
                     THEN IF 10 * q.unparsable > RowCount(df)
                          THEN <<Message("non_numeric_values", col)>> ELSE <<>>
                     ELSE (IF q.negative THEN <<Message("negative_values", col)>>
                           ELSE <<>>)
                          \o (IF q.iqr_positive /\ 20 * q.outliers > RowCount(df)
                              THEN <<Message("outliers", col)>> ELSE <<>>)
         IN here \o NumericWarnings(Tail(mappings), df)

\* _check_data_quality with the penalty of a high missing rate capped at 20
\* instead of 30.
check_data_quality_HighCappedAtTwenty(df, mappings) ==
    LET cells == CellCount(df)
        missing100 == 100 * df.missing
        high == missing100 > 20 * cells
        moderate == ~high /\ missing100 > 5 * cells
        s1 == 100 * cells
                - (IF high THEN Min2(20 * cells, missing100)
                   ELSE IF moderate THEN missing100 ELSE 0)
        dup100 == 100 * df.duplicates * df.ncols
        s2 == IF df.duplicates > 0 THEN s1 - Min2(10 * cells, dup100) ELSE s1
    IN [score |-> Max2(0, s2),
        warnings |->
            (IF high THEN <<Message("high_missing_rate", "")>>
             ELSE IF moderate THEN <<Message("moderate_missing_rate", "")>> ELSE <<>>)
            \o (IF df.duplicates > 0 THEN <<Message("duplicate_rows", "")>> ELSE <<>>)
            \o NumericWarnings(mappings, df)]

\* SchemaValidator._check_data_quality
check_data_quality(df, mappings) ==
    LET cells == CellCount(df)
        missing100 == 100 * df.missing
        high == missing100 > 20 * cells
        moderate == ~high /\ missing100 > 5 * cells
        s1 == 100 * cells
                - (IF high THEN Min2(30 * cells, missing100)
                   ELSE IF moderate THEN missing100 ELSE 0)
        dup100 == 100 * df.duplicates * df.ncols
        s2 == IF df.duplicates > 0 THEN s1 - Min2(10 * cells, dup100) ELSE s1
    IN [score |-> Max2(0, s2),
        warnings |->
            (IF high THEN <<Message("high_missing_rate", "")>>
             ELSE IF moderate THEN <<Message("moderate_missing_rate", "")>> ELSE <<>>)
            \o (IF df.duplicates > 0 THEN <<Message("duplicate_rows", "")>> ELSE <<>>)
            \o NumericWarnings(mappings, df)]

\* SchemaValidator.validate(df, mapping_result, strict) with the mapping
\* given: [raised, result]
validate(df, mappings, strict) ==
    LET r1 == [NewValidationResult EXCEPT !.mapping_result = Some(mappings)]
        mapped_types == MappedTypes(mappings)
        r2 == CheckRequired(r1, mapped_types)
        r3 == CheckRecommended(r2, mapped_types, strict)
        target_cols == ColumnsByType(Some(mappings), {"target"})
        r4 == IF target_cols # <<>>
              THEN ApplyTargetValidation(r3, validate_target_column(df))
              ELSE r3
        quality == check_data_quality(df, mappings)
        r5 == [r4 EXCEPT !.data_quality_score = quality.score,
                         !.warnings = @ \o quality.warnings]
        r6 == IF RowCount(df) < 100
              THEN [r5 EXCEPT !.warnings = Append(@, Message("few_rows", ""))]
              ELSE r5
    IN IF target_cols # <<>> /\ target_cols[1] # df.target_name
       THEN [raised |-> "KeyError"]
       ELSE [raised |-> "", result |-> r6]

\* Label columns: class counts and missing labels.  The row counts are 200,
\* 99 and 100; minorities of 4%, 9.1% and exactly 10%; one and three classes.
TargetShapes ==
    {[counts |-> <<100, 100>>, missing |-> 0],
     [counts |-> <<95, 4>>, missing |-> 0],
     [counts |-> <<50, 49>>, missing |-> 0],
     [counts |-> <<90, 9>>, missing |-> 1],
     [counts |-> <<90, 10>>, missing |-> 0],
     [counts |-> <<60, 30, 10>>, missing |-> 0],
     [counts |-> <<100>>, missing |-> 0]}

\* What _check_data_quality finds in one numeric-role column.
ColumnFindings ==
    {[numeric_dtype |-> TRUE, unparsable |-> 0, negative |-> FALSE,
      iqr_positive |-> TRUE, outliers |-> 0],
     [numeric_dtype |-> TRUE, unparsable |-> 0, negative |-> TRUE,
      iqr_positive |-> TRUE, outliers |-> 20],
     [numeric_dtype |-> FALSE, unparsable |-> 30, negative |-> FALSE,
      iqr_positive |-> FALSE, outliers |-> 0]}

\* Datasets of five columns handed to validate: missing cells outside the
\* label column at 0%, 10%, 20% and just above 20% of the cells.
ValidationFrames ==
    {[target_name |-> "Churn", target_counts |-> t.counts,
      target_missing |-> t.missing, ncols |-> 5,
      missing |-> t.missing + other_missing, duplicates |-> duplicates,
      columns |-> [tenure |-> findings]] :
        t \in TargetShapes,
        other_missing \in {0, 50, 5 * 20 - 1, 5 * 40 + 5},
        duplicates \in {0, 3},
        findings \in ColumnFindings}

\* A mapping that gives every role of the validator a column.
FullMapping ==
    <<MapEntry("customerID", "id"), MapEntry("Churn", "target"),
      MapEntry("tenure", "tenure"), MapEntry("MonthlyCharges", "cost_monthly"),
      MapEntry("Contract", "contract")>>

\* The mappings handed to validate: every choice of roles out of FullMapping,
\* and one whose label column the dataset does not have.
ValidationMappings ==
    {SelectSeq(FullMapping, LAMBDA e : e.target_type \in roles) :
        roles \in SUBSET {"id", "target", "tenure", "cost_monthly", "contract"}}
    \cup {<<MapEntry("Exited", "target"), MapEntry("tenure", "tenure")>>}

\* The calls of validate: dataset, mapping and strict flag.
ValidationCalls ==
    [df : ValidationFrames, mappings : ValidationMappings, strict : BOOLEAN]

\* validator.validate(df, mapping_result, strict), on the arguments chosen
\* at the start
Validate ==
    /\ validation # None
    /\ outcome.op = "init"
    /\ LET call == validation[1]
           r == validate(call.df, call.mappings, call.strict)
       IN outcome' = Outcome("validate", r.raised,
                             IF r.raised = "" THEN Some(r.result) ELSE None)
    /\ UNCHANGED <<serverVars, sigVars, mpVars, fitVars, validation, recommendations, callArgs, smartVars>>

ValidatorNext == Validate

\* Datasets of five columns and 100 or 200 rows with missing cells (outside
\* the label column) at 0%, 5%, 20%, one cell above 20%, 30% and 50% of the
\* cells, and duplicate rows at 0%, 3% and 15% of the rows.
QualityFrames ==
    UNION {{[target_name |-> "Churn", target_counts |-> <<rows \div 2, rows \div 2>>,
             target_missing |-> 0, ncols |-> 5, missing |-> missing,
             duplicates |-> (rows * dup_pct) \div 100,
             columns |-> [tenure |-> [numeric_dtype |-> TRUE, unparsable |-> 0,
                                      negative |-> FALSE, iqr_positive |-> TRUE,
                                      outliers |-> 0]]] :
               missing \in {0, (5 * rows) \div 20, rows, rows + 1,
                            (3 * 5 * rows) \div 10, (5 * rows) \div 2},
               dup_pct \in {0, 3, 15}} :
           rows \in {100, 200}}

\* Two datasets with the same share of duplicate rows, the first with at
\* most 20% of its cells missing and the second with more.
QualityPairs ==
    {pair \in [below : QualityFrames, above : QualityFrames] :
        /\ 100 * pair.below.missing <= 20 * CellCount(pair.below)
        /\ 100 * pair.above.missing > 20 * CellCount(pair.above)
        /\ pair.below.duplicates * RowCount(pair.above)
              = pair.above.duplicates * RowCount(pair.below)}

\* A caller validating the two datasets of the pair chosen at the start,
\* one after the other.
ValidatePair ==
    /\ callArgs # None
    /\ outcome.op = "init"
    /\ LET below == validate(callArgs[1].below, FullMapping, FALSE)
           above == validate(callArgs[1].above, FullMapping, FALSE)
       IN outcome' = Outcome("validate_pair", "",
                             Some([below |-> below.result, above |-> above.result]))
    /\ UNCHANGED <<serverVars, sigVars, mpVars, fitVars, validation, recommendations, callArgs,
                   smartVars>>

QualityNext == ValidatePair

(***************************************************************************)
(* SmartPipeline                                                           *)
(*                                                                         *)
(* The datasets are those of ModelPipeline, now also with their column     *)
(* names; the mapping of a dataset is what the column mapper returns for   *)
(* it.  A compatibility score is an exact fraction <<numerator,            *)
(* denominator>>.                                                          *)
(***************************************************************************)

SmartDatasets ==
    {"telco", "telco_lower", "saas", "bank5", "unlabeled"}

\* list(df.columns)
Columns(ds) ==
    CASE ds = "telco_lower" ->
           <<"customerID", "tenure", "PhoneService", "MonthlyCharges", "churn">>
      [] ds = "saas" -> <<"user_id", "tenure", "plan", "usage", "Churn">>
      [] ds = "bank5" -> <<"customerID", "tenure", "Balance", "CreditScore", "Exited">>
      [] ds = "bank_two_labels" ->
           <<"customerID", "tenure", "Balance", "Churn", "Exited">>
      [] ds = "unlabeled" -> <<"customerID", "tenure", "PhoneService">>
      [] OTHER -> <<"customerID", "tenure", "PhoneService", "MonthlyCharges", "Churn">>

\* The keywords of _detect_domain that occur in the lower-cased column name.
KeywordsIn(col) ==
    CASE col = "PhoneService" -> {"phone"}
      [] col = "Balance" -> {"balance"}
      [] col = "CreditScore" -> {"credit"}
      [] col = "plan" -> {"plan"}
      [] col = "usage" -> {"usage"}
      [] OTHER -> {}

\* SmartPipeline._detect_domain without a semantic detector: the heuristic
\* over the joined column names
detect_domain(ds) ==
    LET found == UNION {KeywordsIn(Columns(ds)[i]) : i \in DOMAIN Columns(ds)}
    IN IF found \cap {"phone", "internet", "streaming", "fiber"} # {} THEN "Telecom"
       ELSE IF found \cap {"credit", "balance", "loan", "deposit"} # {} THEN "Banking"
       ELSE IF found \cap {"employee", "department", "salary", "job"} # {}
       THEN "HR/Employee"
       ELSE IF found \cap {"subscription", "plan", "usage"} # {}
       THEN "SaaS/Subscription"
       ELSE "General"

Domains == {"Telecom", "Banking", "HR/Employee", "SaaS/Subscription", "General"}

\* domain.lower().replace("/", "_").replace(" ", "_")
safe_domain(domain) ==
    CASE domain = "Telecom" -> "telecom"
      [] domain = "Banking" -> "banking"
      [] domain = "HR/Employee" -> "hr_employee"
      [] domain = "SaaS/Subscription" -> "saas_subscription"
      [] OTHER -> "general"

ModelPathOf(domain) == safe_domain(domain) \o "_model.pkl"
PreprocessorPathOf(domain) == safe_domain(domain) \o "_preprocessor.pkl"

DomainPaths ==
    {ModelPathOf(d) : d \in Domains} \cup {PreprocessorPathOf(d) : d \in Domains}

\* The first column with the target role, as analyze, _run_training and
\* _calculate_compatibility find it.
FirstTarget(ds) ==
    IF TargetColumns(ds) = <<>> THEN None ELSE Some(TargetColumns(ds)[1])

\* Fractions
Frac(n, d) == <<n, d>>
FracGE(x, y) == x[1] * y[2] >= y[1] * x[2]
FracGT(x, y) == x[1] * y[2] > y[1] * x[2]

\* _calculate_compatibility with a target match weighing 0.4 instead of 0.3.
calculate_compatibility_TargetWeightFour(ds, registered_model) ==
    LET current_cols == SeqToSet(Columns(ds))
        model_cols == SeqToSet(registered_model.columns)
        a == Cardinality(current_cols \cap model_cols)
        b == Cardinality(model_cols)
        current_target == FirstTarget(ds)
        t == IF current_target # None /\ current_target[1] # ""
                /\ Lower(current_target[1]) = Lower(registered_model.target)
             THEN 1 ELSE 0
        current_features == Len(Columns(ds))
        model_features == registered_model.n_features
        c == IF model_features > 0 THEN Min2(current_features, model_features) ELSE 0
        d == IF model_features > 0 THEN Max2(current_features, model_features) ELSE 1
    IN IF model_cols = {} THEN Frac(0, 1)
       ELSE Frac(5 * a * d + 4 * t * b * d + 2 * c * b, 10 * b * d)

\* SmartPipeline._calculate_compatibility
calculate_compatibility(ds, registered_model) ==
    LET current_cols == SeqToSet(Columns(ds))
        model_cols == SeqToSet(registered_model.columns)
        a == Cardinality(current_cols \cap model_cols)
        b == Cardinality(model_cols)
        current_target == FirstTarget(ds)
        t == IF current_target # None /\ current_target[1] # ""
                /\ Lower(current_target[1]) = Lower(registered_model.target)
             THEN 1 ELSE 0
        current_features == Len(Columns(ds))
        model_features == registered_model.n_features
        c == IF model_features > 0 THEN Min2(current_features, model_features) ELSE 0
        d == IF model_features > 0 THEN Max2(current_features, model_features) ELSE 1
    IN IF model_cols = {} THEN Frac(0, 1)
       ELSE Frac(5 * a * d + 3 * t * b * d + 2 * c * b, 10 * b * d)

RECURSIVE BestMatch(_, _, _)
\* analyze, step 4: the loop over the registry, best = [match, score]
BestMatch(models, ds, best) ==
    IF models = <<>> THEN best
    ELSE LET score == calculate_compatibility(ds, Head(models).info)
         IN BestMatch(Tail(models), ds,
                      IF FracGT(score, best.score)
                      THEN [match |-> Some(Head(models).name), score |-> score]
                      ELSE best)

\* analyze with the predict threshold compared strictly.
analyze_StrictThreshold(models, ds) ==
    LET best == BestMatch(models, ds, [match |-> None, score |-> Frac(0, 1)])
        info == models[CHOOSE i \in DOMAIN models : models[i].name = best.match[1]].info
    IN IF FirstTarget(ds) = None \/ FirstTarget(ds)[1] = ""
       THEN [action |-> "train", model_path |-> None,
             confidence |-> Frac(8, 10), domain_match |-> None]
       ELSE IF FracGT(best.score, Frac(7, 10))
       THEN [action |-> "predict", model_path |-> Some(info.model_path),
             confidence |-> best.score, domain_match |-> best.match]
       ELSE IF FracGE(best.score, Frac(4, 10))
       THEN [action |-> "retrain", model_path |-> None,
             confidence |-> best.score, domain_match |-> best.match]
       ELSE [action |-> "train", model_path |-> None,
             confidence |-> Frac(9, 10), domain_match |-> None]

\* SmartPipeline.analyze: the AutoDecision (its reason text is not kept)
analyze(models, ds) ==
    LET best == BestMatch(models, ds, [match |-> None, score |-> Frac(0, 1)])
        info == models[CHOOSE i \in DOMAIN models : models[i].name = best.match[1]].info
    IN IF FirstTarget(ds) = None \/ FirstTarget(ds)[1] = ""
       THEN [action |-> "train", model_path |-> None,
             confidence |-> Frac(8, 10), domain_match |-> None]
       ELSE IF FracGE(best.score, Frac(7, 10))
       THEN [action |-> "predict", model_path |-> Some(info.model_path),
             confidence |-> best.score, domain_match |-> best.match]
       ELSE IF FracGE(best.score, Frac(4, 10))
       THEN [action |-> "retrain", model_path |-> None,
             confidence |-> best.score, domain_match |-> best.match]
       ELSE [action |-> "train", model_path |-> None,
             confidence |-> Frac(9, 10), domain_match |-> None]

\* The registry assignment as a list append, a second entry for a name that
\* is already registered.
RegistrySet_AlwaysAppend(models, name, info) ==
    Append(models, [name |-> name, info |-> info])

\* self.registry["models"][domain] = info: a new key goes last, an existing
\* key keeps its place.
RegistrySet(models, name, info) ==
    IF \E i \in DOMAIN models : models[i].name = name
    THEN [i \in DOMAIN models |->
             IF models[i].name = name THEN [name |-> name, info |-> info]
             ELSE models[i]]
    ELSE Append(models, [name |-> name, info |-> info])

\* The registry entry with n_features counting the columns without the
\* target column.
RegisteredInfo_FeaturesWithoutTarget(ds, domain) ==
    [model_path |-> ModelPathOf(domain),
     preprocessor_path |-> PreprocessorPathOf(domain),
     columns |-> Columns(ds), target |-> FirstTarget(ds)[1],
     n_features |-> Len(Columns(ds)) - 1]

\* The registry entry _run_training writes (n_samples and created_at, a row
\* count and a timestamp, are not kept).
RegisteredInfo(ds, domain) ==
    [model_path |-> ModelPathOf(domain),
     preprocessor_path |-> PreprocessorPathOf(domain),
     columns |-> Columns(ds), target |-> FirstTarget(ds)[1],
     n_features |-> Len(Columns(ds))]

\* SmartPipeline(): the registry is read from model_registry.json if the
\* file exists.
SmartConstruct ==
    /\ registry' = IF registryFile = None THEN <<>> ELSE registryFile[1]
    /\ outcome' = Outcome("SmartPipeline", "", None)
    /\ UNCHANGED <<serverVars, sigVars, mpVars, fitVars, validation, recommendations, callArgs, registryFile>>

\* smart.analyze(df)
SmartAnalyze(ds) ==
    /\ outcome' = Outcome("analyze", "",
                          Some([df |-> ds, decision |-> analyze(registry, ds)]))
    /\ UNCHANGED <<serverVars, sigVars, mpVars, fitVars, validation, recommendations, callArgs, smartVars>>

\* How the writes of one training run go.
RunWriteResults == WriteResults \cup {"registry_write_fails"}

\* SmartPipeline._run_training(df, decision): a new ModelPipeline is trained,
\* saved at the domain's paths and registered; the registry is then written
\* to its file.  The value of a returning run names the dataset and whether
\* training was forced, next to the dict the code returns.
RunTraining(ds, force_train, io) ==
    LET trained == train(NewModelPipeline, ds)
        domain == detect_domain(ds)
        with_model ==
            [files EXCEPT ![ModelPathOf(domain)] = Some(ModelFile(trained.state, saves + 1))]
        with_both ==
            [with_model EXCEPT ![PreprocessorPathOf(domain)] =
                 Some(PreprocessorFile(trained.state.preprocessor, saves + 1))]
        registered == RegistrySet(registry, domain, RegisteredInfo(ds, domain))
    IN IF trained.raised # ""
       THEN /\ outcome' = Outcome("run", trained.raised, None)
            /\ UNCHANGED <<serverVars, files, saves, smartVars>>
       ELSE /\ saves < MaxSaves
            /\ saves' = saves + 1
            /\ CASE io = "model_write_fails" ->
                      /\ outcome' = Outcome("run", "OSError", None)
                      /\ UNCHANGED <<serverVars, files, smartVars>>
                 [] io = "preprocessor_write_fails" ->
                      /\ files' = with_model
                      /\ outcome' = Outcome("run", "OSError", None)
                      /\ UNCHANGED smartVars
                 [] io = "registry_write_fails" ->
                      /\ files' = with_both
                      /\ registry' = registered
                      /\ outcome' = Outcome("run", "OSError", None)
                      /\ UNCHANGED registryFile
                 [] OTHER ->
                      /\ files' = with_both
                      /\ registry' = registered
                      /\ registryFile' = Some(registered)
                      /\ outcome' = Outcome("run", "",
                             Some([df |-> ds, force_train |-> force_train,
                                   action |-> "trained", domain |-> domain,
                                   model_path |-> ModelPathOf(domain)]))

\* The registry entry of a name (read only for names that are registered).
RegistryGet(models, name) ==
    models[CHOOSE i \in DOMAIN models : models[i].name = name].info

\* SmartPipeline._run_prediction(df, decision, None): the pipeline is loaded
\* from the matched entry's two paths and predicts; the recommendation engine
\* built around it keeps no state.  Nothing is written.
RunPrediction(ds, decision) ==
    LET model_info == RegistryGet(registry, decision.domain_match[1])
        model_file == files[decision.model_path[1]]
        prep_file == files[model_info.preprocessor_path]
    IN /\ IF model_file = None \/ prep_file = None
          THEN outcome' = Outcome("run", "FileNotFoundError", None)
          ELSE \E r \in predict(LoadedPipeline(model_file[1], prep_file[1])) :
                  outcome' =
                      IF r.raised # "" THEN Outcome("run", r.raised, None)
                      ELSE Outcome("run", "",
                               Some([df |-> ds, force_train |-> FALSE,
                                     action |-> "predicted",
                                     model_used |-> decision.domain_match[1]]))
       /\ UNCHANGED <<serverVars, files, saves, smartVars>>

\* smart.run(df, force_train=True): analyze, then _run_training whatever the
\* decision.
SmartRunForceTrain(ds, io) ==
    /\ RunTraining(ds, TRUE, io)
    /\ UNCHANGED <<serverVars, sigVars, mp, fitVars, validation, recommendations, callArgs>>

\* smart.run(df): analyze, then _run_training when the decision is train or
\* retrain, _run_prediction when it is predict.
SmartRun(ds, io) ==
    LET decision == analyze(registry, ds)
    IN /\ IF decision.action \in {"train", "retrain"}
          THEN RunTraining(ds, FALSE, io)
          ELSE io = "ok" /\ RunPrediction(ds, decision)
       /\ UNCHANGED <<serverVars, sigVars, mp, fitVars, validation, recommendations, callArgs>>

\* The datasets whose label column the components pick: one label column,
\* two, none.
LabelDatasets == {"telco", "saas", "bank_two_labels", "unlabeled"}

\* mapping_result.mappings of a dataset, as far as validate reads it: the
\* columns with the target role in mapping order, and tenure.
LabelMapping(ds) ==
    [i \in DOMAIN TargetColumns(ds) |-> MapEntry(TargetColumns(ds)[i], "target")]
        \o <<MapEntry("tenure", "tenure")>>

\* What validate reads of the dataset: 200 rows, the label column that
\* validate is about to read with two classes, no missing cell.
LabelFrame(ds, target_col) ==
    [target_name |-> target_col, target_counts |-> <<150, 50>>,
     target_missing |-> 0, ncols |-> Len(Columns(ds)), missing |-> 0,
     duplicates |-> 0,
     columns |-> [tenure |-> [numeric_dtype |-> TRUE, unparsable |-> 0,
                              negative |-> FALSE, iqr_positive |-> TRUE,
                              outliers |-> 0]]]

\* validator.validate(df, mapping_result) on a dataset: the value names the
\* column handed to _validate_target_column (target_cols[0]), if any.
ValidateLabel(ds) ==
    LET target_cols == ColumnsByType(Some(LabelMapping(ds)), {"target"})
        target_col == IF target_cols = <<>> THEN None ELSE Some(target_cols[1])
        r == validate(LabelFrame(ds, IF target_col = None THEN "" ELSE target_col[1]),
                      LabelMapping(ds), FALSE)
    IN /\ outcome' = Outcome("validate", r.raised,
                             Some([df |-> ds, target_col |-> target_col,
                                   is_valid |-> r.result.is_valid]))
       /\ UNCHANGED <<serverVars, sigVars, mpVars, fitVars, validation, recommendations, callArgs,
                      smartVars>>

\* The label column of a dataset through the validator and through a
\* SmartPipeline that trains on it.
LabelNext ==
    \/ SmartConstruct
    \/ \E ds \in LabelDatasets : ValidateLabel(ds)
    \/ \E ds \in LabelDatasets, io \in RunWriteResults : SmartRunForceTrain(ds, io)

SmartNext ==
    \/ SmartConstruct
    \/ \E ds \in SmartDatasets : SmartAnalyze(ds)
    \/ \E ds \in SmartDatasets, io \in RunWriteResults : SmartRunForceTrain(ds, io)
    \/ \E ds \in SmartDatasets, io \in RunWriteResults : SmartRun(ds, io)

(***************************************************************************)
(* ColumnMapper                                                            *)
(*                                                                         *)
(* A column is known by its name and by what the mapper reads of its       *)
(* values.  A mapping dict is the sequence of its ColumnMapping entries in *)
(* insertion order; a confidence is an exact fraction.                     *)
(***************************************************************************)

\* The values of ColumnType
ColumnTypeValues ==
    {"id", "target", "tenure", "cost_monthly", "cost_total", "contract",
     "categorical", "binary", "numeric"}

\* The frames given to the mapper, by their column names.
MapFrames ==
    {<<"customerID", "tenure", "MonthlyCharges", "PhoneService", "Region", "Churn">>,
     <<"tenure", "Label", "Plan", "Region">>,
     <<"CustomerID", "tenure", "MonthlyCharges", "Contract", "Churn">>}

\* len(col_lower)
ColLowerLen(col) ==
    CASE col \in {"customerID", "CustomerID"} -> 10
      [] col = "Contract" -> 8
      [] col = "tenure" -> 6
      [] col = "MonthlyCharges" -> 14
      [] col = "PhoneService" -> 12
      [] col = "Churn" -> 5
      [] col = "Plan" -> 4
      [] col = "Label" -> 5
      [] OTHER -> 6

\* The keywords of DEFAULT_SCHEMA with "keyword in col_lower or col_lower in
\* keyword", in the order the loops of _keyword_match meet them.
KeywordHits(col) ==
    LET hit(len, type, equal) == [len |-> len, type |-> type, equal |-> equal]
    IN CASE col \in {"customerID", "CustomerID"} ->
              <<hit(2, "id", FALSE), hit(10, "id", TRUE)>>
         [] col = "Contract" -> <<hit(8, "contract", TRUE)>>
         [] col = "tenure" -> <<hit(6, "tenure", TRUE)>>
         [] col = "MonthlyCharges" ->
              <<hit(7, "cost_monthly", FALSE), hit(6, "cost_monthly", FALSE)>>
         [] col = "Churn" -> <<hit(5, "target", TRUE), hit(7, "target", FALSE)>>
         [] col = "Plan" -> <<hit(4, "contract", TRUE)>>
         [] OTHER -> <<>>

\* What the mapper reads of a column's values: the lower-cased strings of the
\* distinct values, whether the dtype is numeric, whether the minimum is >= 0.
ColumnValues(col) ==
    LET of(unique, numeric, nonneg) ==
            [unique |-> unique, numeric |-> numeric, nonneg |-> nonneg]
    IN CASE col \in {"PhoneService", "Churn", "Label"} -> of({"yes", "no"}, FALSE, FALSE)
         [] col = "tenure" -> of({"1", "2", "3", "4"}, TRUE, TRUE)
         [] col = "MonthlyCharges" -> of({"20", "30", "55", "70"}, TRUE, TRUE)
         [] col = "Plan" -> of({"basic", "plus", "pro"}, FALSE, FALSE)
         [] col = "Contract" -> of({"month-to-month", "one year", "two year"}, FALSE, FALSE)
         [] OTHER -> of({"r" \o ToString(k) : k \in 1..20}, FALSE, FALSE)

\* ColumnMapping(source_column, target_type, confidence, detection_method)
ColumnMapping(col, type, confidence, method) ==
    [source_column |-> col, target_type |-> type, confidence |-> confidence,
     detection_method |-> method]

\* MappingResult()
NewMappingResult ==
    [mappings |-> <<>>, unmapped_columns |-> <<>>, warnings |-> <<>>,
     llm_insights |-> None]

\* col in mappings, mappings[col], mappings[col] = m
IsMapped(mappings, col) == \E i \in DOMAIN mappings : mappings[i].source_column = col
MappingOf(mappings, col) ==
    mappings[CHOOSE i \in DOMAIN mappings : mappings[i].source_column = col]
SetMapping(mappings, m) ==
    IF IsMapped(mappings, m.source_column)
    THEN [i \in DOMAIN mappings |->
             IF mappings[i].source_column = m.source_column THEN m ELSE mappings[i]]
    ELSE Append(mappings, m)

RECURSIVE BestKeyword(_, _, _, _)
\* The loop of _keyword_match: best is None or the best match so far, with
\* its score.
BestKeyword(col, hits, best, best_score) ==
    IF hits = <<>> THEN best
    ELSE LET h == Head(hits)
             score == IF h.equal THEN Frac(1, 1)
                      ELSE Frac(h.len, Max2(ColLowerLen(col), h.len))
             confidence == IF FracGT(score, Frac(95, 100)) THEN Frac(95, 100) ELSE score
         IN IF FracGT(score, best_score)
            THEN BestKeyword(col, Tail(hits),
                             Some(ColumnMapping(col, h.type, confidence, "keyword")), score)
            ELSE BestKeyword(col, Tail(hits), best, best_score)

\* ColumnMapper._keyword_match: Optional mapping
keyword_match(col) ==
    LET best_match == BestKeyword(col, KeywordHits(col), None, Frac(0, 1))
        is_target_candidate == col \in {"Churn", "Label"}
        unique_vals == ColumnValues(col).unique
        matches == Cardinality(unique_vals
                                   \cap {"yes", "no", "0", "1", "true", "false"})
    IN IF best_match = None /\ is_target_candidate
          /\ 2 * matches >= Cardinality(unique_vals)
       THEN Some(ColumnMapping(col, "target", Frac(85, 100), "value_hint"))
       ELSE best_match

\* ColumnMapper._type_inference: Optional mapping
type_inference(col) ==
    LET v == ColumnValues(col)
        n == Cardinality(v.unique)
        binary_patterns == {{"yes", "no"}, {"0", "1"}, {"true", "false"},
                            {"y", "n"}, {"yes", "no", ""}}
    IN IF n <= 3 /\ \E pattern \in binary_patterns : v.unique \subseteq pattern
       THEN Some(ColumnMapping(col, "binary", Frac(8, 10), "type_inference"))
       ELSE IF v.numeric /\ v.nonneg
       THEN IF col = "MonthlyCharges"
            THEN Some(ColumnMapping(col, "cost_monthly", Frac(6, 10), "type_inference"))
            ELSE Some(ColumnMapping(col, "numeric", Frac(5, 10), "type_inference"))
       ELSE IF n < 20 /\ n > 2
       THEN Some(ColumnMapping(col, "categorical", Frac(5, 10), "type_inference"))
       ELSE None

RECURSIVE DetectColumns(_, _)
\* The first loop of _auto_detect_mappings.  The mappings so far are bound
\* as a value (so_far) before the iteration reads them.
DetectColumns(mappings, cols) ==
    IF cols = <<>> THEN mappings
    ELSE LET col == Head(cols)
             mapping == IF keyword_match(col) # None THEN keyword_match(col)
                        ELSE type_inference(col)
         IN CHOOSE detected \in
                {DetectColumns(IF mapping # None THEN SetMapping(so_far, mapping[1])
                               ELSE so_far,
                               Tail(cols)) : so_far \in {mappings}} : TRUE

\* What _llm_analyze returns, read as _auto_detect_mappings reads it: the
\* "insights" entry and the "suggestions" entry, whose shape is missing,
\* null, list or dict (with its items in order).  A failed call, a text
\* without a JSON object and a text that does not parse give a dict without
\* either entry.
llm_analyze(response) ==
    IF response.kind = "json"
    THEN [insights |-> response.insights, suggestions |-> response.suggestions]
    ELSE [insights |-> None, suggestions |-> [shape |-> "missing", items |-> <<>>]]

RECURSIVE ApplySuggestions(_, _)
\* The loop over llm_result.get("suggestions", {}).items()
ApplySuggestions(mappings, items) ==
    IF items = <<>> THEN mappings
    ELSE LET col == Head(items)[1]
             suggested_type == Head(items)[2]
             replaceable == \/ ~IsMapped(mappings, col)
                            \/ ~FracGE(MappingOf(mappings, col).confidence, Frac(8, 10))
         IN ApplySuggestions(
                IF replaceable /\ suggested_type \in ColumnTypeValues
                THEN SetMapping(mappings,
                                ColumnMapping(col, suggested_type, Frac(85, 100), "llm"))
                ELSE mappings,
                Tail(items))

\* ColumnMapper._auto_detect_mappings(df, use_llm); llm is the collaborator:
\* whether it is available and what it answers.
auto_detect_mappings(df, use_llm, llm) ==
    LET detected == [NewMappingResult EXCEPT !.mappings = DetectColumns(<<>>, df)]
        llm_result == llm_analyze(llm.response)
    IN IF ~(use_llm /\ llm.available) THEN Ended("", detected)
       ELSE IF llm_result.suggestions.shape \in {"null", "list"}
       THEN Ended("AttributeError",
                  [detected EXCEPT !.llm_insights = llm_result.insights])
       ELSE Ended("", [detected EXCEPT
                          !.llm_insights = llm_result.insights,
                          !.mappings = ApplySuggestions(@, llm_result.suggestions.items)])

\* A warning of the mapper: what it is about.
MapWarning(kind, col, type_name) == [kind |-> kind, col |-> col, type_name |-> type_name]

RECURSIVE apply_manual_mappings(_, _, _)
\* ColumnMapper._apply_manual_mappings, from the result built so far
apply_manual_mappings(result, df, manual_mappings) ==
    IF manual_mappings = <<>> THEN result
    ELSE LET col_name == Head(manual_mappings)[1]
             type_name == Head(manual_mappings)[2]
             next ==
                IF col_name \in SeqToSet(df)
                THEN IF type_name \in ColumnTypeValues
                     THEN [result EXCEPT !.mappings =
                              SetMapping(@, ColumnMapping(col_name, type_name,
                                                          Frac(1, 1), "manual"))]
                     ELSE [result EXCEPT !.warnings =
                              Append(@, MapWarning("unknown_type", col_name, type_name))]
                ELSE [result EXCEPT !.warnings =
                         Append(@, MapWarning("column_not_found", col_name, type_name))]
         IN apply_manual_mappings(next, df, Tail(manual_mappings))

\* _merge_manual_mappings keeping an automatic mapping of confidence 0.8 or
\* more.
RECURSIVE merge_manual_mappings_KeepConfident(_, _)
merge_manual_mappings_KeepConfident(auto_result, manual_mappings) ==
    IF manual_mappings = <<>> THEN auto_result
    ELSE LET col_name == Head(manual_mappings)[1]
             type_name == Head(manual_mappings)[2]
             keep == /\ IsMapped(auto_result.mappings, col_name)
                     /\ FracGE(MappingOf(auto_result.mappings, col_name).confidence,
                               Frac(8, 10))
             next ==
                IF type_name \in ColumnTypeValues
                THEN IF keep THEN auto_result
                     ELSE [auto_result EXCEPT !.mappings =
                              SetMapping(@, ColumnMapping(col_name, type_name,
                                                          Frac(1, 1), "manual"))]
                ELSE [auto_result EXCEPT !.warnings =
                         Append(@, MapWarning("unknown_type", col_name, type_name))]
         IN merge_manual_mappings_KeepConfident(next, Tail(manual_mappings))

RECURSIVE merge_manual_mappings(_, _)
\* ColumnMapper._merge_manual_mappings
merge_manual_mappings(auto_result, manual_mappings) ==
    IF manual_mappings = <<>> THEN auto_result
    ELSE LET col_name == Head(manual_mappings)[1]
             type_name == Head(manual_mappings)[2]
             next ==
                IF type_name \in ColumnTypeValues
                THEN [auto_result EXCEPT !.mappings =
                         SetMapping(@, ColumnMapping(col_name, type_name,
                                                     Frac(1, 1), "manual"))]
                ELSE [auto_result EXCEPT !.warnings =
                         Append(@, MapWarning("unknown_type", col_name, type_name))]
         IN merge_manual_mappings(next, Tail(manual_mappings))

\* ColumnMapper.map_columns(df, mode, manual_mappings, use_llm).
\* manual_mappings is None or the items of the dict; an empty dict is as
\* false as None.
map_columns(df, mode, manual_mappings, use_llm, llm) ==
    LET given == manual_mappings # None /\ manual_mappings[1] # <<>>
        auto == auto_detect_mappings(df, use_llm, llm)
        result ==
            IF mode = "manual" /\ given
            THEN Ended("", apply_manual_mappings(NewMappingResult, df, manual_mappings[1]))
            ELSE IF mode = "auto" THEN auto
            ELSE IF auto.raised = "" /\ given
            THEN Ended("", merge_manual_mappings(auto.state, manual_mappings[1]))
            ELSE auto
    IN IF result.raised # "" THEN result
       ELSE CHOOSE ended \in
                {Ended("", [state EXCEPT !.unmapped_columns =
                               SelectSeq(df, LAMBDA col : ~IsMapped(state.mappings, col))])
                    : state \in {result.state}} : TRUE

\* The override tables given to map_columns: none, an empty one, and tables
\* of one or two columns, with role names that are roles or not and a
\* column that no frame has.
ManualItems ==
    {<<col, type_name>> : col \in {"tenure", "Region", "Ghost"},
                          type_name \in {"cost_total", "bogus"}}

ManualMappings ==
    {None, Some(<<>>)}
        \cup {Some(<<a>>) : a \in ManualItems}
        \cup {Some(<<a, b>>) : a \in {<<"tenure", "cost_total">>},
                               b \in {c \in ManualItems : c[1] # "tenure"}}

\* The answers of the semantic collaborator.
LLMSuggestions ==
    {[shape |-> shape, items |-> <<>>] : shape \in {"missing", "null", "list", "dict"}}
        \cup {[shape |-> "dict", items |-> <<<<col, type_name>>>>] :
                 col \in {"tenure", "MonthlyCharges", "Region"},
                 type_name \in {"contract", "bogus"}}

LLMResponses ==
    {[kind |-> kind] : kind \in {"call_fails", "no_json", "bad_json"}}
        \cup {[kind |-> "json", insights |-> Some("telecom"), suggestions |-> g] :
                 g \in LLMSuggestions}

LLMs ==
    {[available |-> FALSE, response |-> [kind |-> "call_fails"]]}
        \cup {[available |-> TRUE, response |-> r] : r \in LLMResponses}

MapCalls ==
    [df : MapFrames, mode : {"auto", "manual", "hybrid"},
     manual_mappings : ManualMappings, use_llm : BOOLEAN, llm : LLMs]

\* mapper.map_columns(df, mode, manual_mappings, use_llm), on the arguments
\* chosen at the start
MapColumns ==
    /\ callArgs # None
    /\ outcome.op = "init"
    /\ LET call == callArgs[1]
           r == map_columns(call.df, call.mode, call.manual_mappings,
                            call.use_llm, call.llm)
       IN outcome' = Outcome("map_columns", r.raised,
                             IF r.raised = "" THEN Some(r.state) ELSE None)
    /\ UNCHANGED <<serverVars, sigVars, mpVars, fitVars, validation, recommendations, callArgs,
                   smartVars>>

MapperNext == MapColumns

\* What the validator reads of a frame given to the mapper: 200 rows, the
\* label column (Churn or Label) with 150 No and 50 Yes, no missing cell, no
\* duplicate row, tenure and MonthlyCharges numeric and clean, the other
\* columns text.
MappedFrame(df) ==
    [target_name |-> IF "Churn" \in SeqToSet(df) THEN "Churn" ELSE "Label",
     target_counts |-> <<150, 50>>, target_missing |-> 0, ncols |-> Len(df),
     missing |-> 0, duplicates |-> 0,
     columns |-> [col \in SeqToSet(df) |->
                    IF col \in {"tenure", "MonthlyCharges"}
                    THEN [numeric_dtype |-> TRUE, unparsable |-> 0, negative |-> FALSE,
                          iqr_positive |-> TRUE, outliers |-> 0]
                    ELSE [numeric_dtype |-> FALSE, unparsable |-> 200,
                          negative |-> FALSE, iqr_positive |-> FALSE, outliers |-> 0]]]

\* mapping_result.mappings.items(): column and role
MappingItems(mappings) ==
    [i \in DOMAIN mappings |->
        MapEntry(mappings[i].source_column, mappings[i].target_type)]

\* validator.validate(df, mapping_result) with the MappingResult that
\* map_columns returned for the same frame
ValidateMapped ==
    /\ callArgs # None
    /\ outcome.op = "map_columns"
    /\ outcome.raised = ""
    /\ LET mapping_result == outcome.value[1]
           r == validate(MappedFrame(callArgs[1].df),
                         MappingItems(mapping_result.mappings), FALSE)
       IN outcome' = Outcome("validate", r.raised,
                             IF r.raised = "" 
                             THEN Some([r.result EXCEPT
                                          !.mapping_result = Some(mapping_result)])
                             ELSE None)
    /\ UNCHANGED <<serverVars, sigVars, mpVars, fitVars, validation, recommendations, callArgs,
                   smartVars>>

MapValidateNext == MapColumns \/ ValidateMapped

(***************************************************************************)
(* A caller that builds a detector, computes thresholds and asks about one *)
(* record                                                                  *)
(***************************************************************************)

\* Records whose tenure and cost cells are numbers, missing, or text:
\* numeric strings, whitespace, other text.
SignalRows ==
    [account : {Str("A1")},
     months : {Num(1), Num(3), NaN, Str("1"), Str(" "), Str("abc")},
     monthly_fee : {Num(1), Num(3), NaN, Str("3"), Str(" "), Str("abc")},
     total_fee : {Num(3)},
     plan : {Str("Two year")},
     backup : {Str("Yes"), Str("No")},
     support : {Str("Yes"), Str("No"), Num(0)}]

SignalCalls ==
    [mapping_result : SigMappings, df : TrainingSets, row : SignalRows,
     churn_probability : {None, Some(70)}]

\* detector = SignalDetector(mapping_result); detector.compute_thresholds(df);
\* detector.detect_signals(row, churn_probability)
SignalCallNext ==
    \/ /\ callArgs # None /\ outcome.op = "init"
       /\ NewDetector(Some(callArgs[1].mapping_result))
    \/ /\ callArgs # None /\ outcome.op = "SignalDetector"
       /\ ComputeThresholds(callArgs[1].df)
    \/ /\ callArgs # None /\ outcome.op = "compute_thresholds"
       /\ DetectSignals(callArgs[1].row, callArgs[1].churn_probability)

(***************************************************************************)
(* The server's endpoints that take a process code                         *)
(*                                                                         *)
(* A request is made by an authenticated user (get_current_user returned   *)
(* the user's row).  The uploaded CSV file is written with its uploads row *)
(* and removed with it, so it is not kept apart from the row.  A response  *)
(* names the user, the process code, the status code and the body, if any. *)
(***************************************************************************)

\* users.id of the registered users
Users == {1, 2}

\* The codes generate_process_code returns.
ProcessCodes == {"AAAA1111", "BBBB2222"}

\* The tables uploads and results after init_tables: process code -> the
\* uploads row, if any, and the results rows of that code.
NewDatabase ==
    [uploads |-> [code \in ProcessCodes |-> None],
     results |-> [code \in ProcessCodes |-> {}]]

\* How the pipeline of process_file goes on the uploaded file: validation
\* fails, a step raises, the frame is scored with or without the
\* recommendation columns.
ProcessRuns == {"invalid", "raises", "scored", "scored_without_recommendations"}

\* The response of an endpoint.
Response(user, process_code, status_code, body) ==
    [user |-> user, process_code |-> process_code, status_code |-> status_code,
     body |-> body]

\* raise HTTPException(status_code, ...)
HTTPException(op, user, process_code, status_code) ==
    Outcome(op, "HTTPException", Some(Response(user, process_code, status_code, None)))

\* db.get_upload_by_code(process_code), then the test of the handlers that
\* look at the owner: `not upload or upload["user_id"] != user["id"]`
UploadNotFound(user, process_code) ==
    \/ db.uploads[process_code] = None
    \/ db.uploads[process_code][1].user_id # user

\* POST /api/upload: a new code, the file and the uploads row
UploadFile(user, process_code) ==
    /\ db.uploads[process_code] = None
    /\ db' = [db EXCEPT !.uploads[process_code] =
                  Some([user_id |-> user, status |-> "uploaded"])]
    /\ outcome' = Outcome("upload_file", "",
                          Some(Response(user, process_code, 200,
                                        Some([status |-> "uploaded"]))))
    /\ UNCHANGED <<sigVars, mpVars, fitVars, validation, recommendations, callArgs,
                   smartVars, resultFiles>>

\* GET /api/files/{process_code}
GetFileInfo(user, process_code) ==
    /\ outcome' =
          IF UploadNotFound(user, process_code)
          THEN HTTPException("get_file_info", user, process_code, 404)
          ELSE Outcome("get_file_info", "",
                       Some(Response(user, process_code, 200, db.uploads[process_code])))
    /\ UNCHANGED <<sigVars, mpVars, fitVars, validation, recommendations, callArgs,
                   smartVars, serverVars>>

\* POST /api/validate/{process_code}
ValidateFile(user, process_code, is_valid) ==
    /\ IF UploadNotFound(user, process_code)
       THEN /\ outcome' = HTTPException("validate_file", user, process_code, 404)
            /\ UNCHANGED db
       ELSE /\ db' = [db EXCEPT !.uploads[process_code][1].status =
                         IF is_valid THEN "uploaded" ELSE "failed"]
            /\ outcome' = Outcome("validate_file", "",
                                  Some(Response(user, process_code, 200,
                                                Some([is_valid |-> is_valid]))))
    /\ UNCHANGED <<sigVars, mpVars, fitVars, validation, recommendations, callArgs,
                   smartVars, resultFiles>>

\* POST /api/process/{process_code}
ProcessFile(user, process_code, run, churn_count) ==
    LET summary == [total_records |-> 2, predicted_churn |-> churn_count]
        output_df == [owner |-> user, predicted_churn |-> churn_count,
                      has_risk_level |-> run = "scored"]
    IN /\ IF UploadNotFound(user, process_code)
          THEN /\ outcome' = HTTPException("process_file", user, process_code, 404)
               /\ UNCHANGED serverVars
          ELSE IF run = "invalid"
          THEN /\ db' = [db EXCEPT !.uploads[process_code][1].status = "failed"]
               /\ outcome' = Outcome("process_file", "",
                                     Some(Response(user, process_code, 400,
                                                   Some([error |-> "Validation failed"]))))
               /\ UNCHANGED resultFiles
          ELSE IF run = "raises"
          THEN /\ db' = [db EXCEPT !.uploads[process_code][1].status = "failed"]
               /\ outcome' = HTTPException("process_file", user, process_code, 500)
               /\ UNCHANGED resultFiles
          ELSE /\ resultFiles' = [resultFiles EXCEPT ![process_code].results =
                                     Some(output_df)]
               /\ db' = [db EXCEPT !.uploads[process_code][1].status = "completed",
                                   !.results[process_code] =
                                       @ \cup {[user_id |-> user] @@ summary}]
               /\ outcome' = Outcome("process_file", "",
                                     Some(Response(user, process_code, 200, Some(summary))))
       /\ UNCHANGED <<sigVars, mpVars, fitVars, validation, recommendations, callArgs,
                      smartVars>>

\* GET /api/results/{process_code}: the page of the result file and the
\* summary of a results row of that code (fetchone of an unordered query)
GetResults(user, process_code) ==
    /\ IF resultFiles[process_code].results = None
       THEN outcome' = HTTPException("get_results", user, process_code, 404)
       ELSE \E result_info \in IF db.results[process_code] = {} THEN {None}
                               ELSE {Some(row) : row \in db.results[process_code]} :
               outcome' = Outcome("get_results", "",
                              Some(Response(user, process_code, 200,
                                   Some([data |-> resultFiles[process_code].results[1],
                                         summary |-> result_info]))))
    /\ UNCHANGED <<sigVars, mpVars, fitVars, validation, recommendations, callArgs,
                   smartVars, serverVars>>

\* GET /api/export/{process_code}: the result file is written again as the
\* export file and sent
ExportResults(user, process_code) ==
    /\ IF resultFiles[process_code].results = None
       THEN /\ outcome' = HTTPException("export_results", user, process_code, 404)
            /\ UNCHANGED resultFiles
       ELSE /\ resultFiles' = [resultFiles EXCEPT ![process_code].export =
                                  resultFiles[process_code].results]
            /\ outcome' = Outcome("export_results", "",
                               Some(Response(user, process_code, 200,
                                    Some([data |-> resultFiles[process_code].results[1]]))))
    /\ UNCHANGED <<sigVars, mpVars, fitVars, validation, recommendations, callArgs,
                   smartVars, db>>

\* GET /api/recommendations/{process_code}
GetRecommendations(user, process_code) ==
    /\ outcome' =
          IF resultFiles[process_code].results = None
          THEN HTTPException("get_recommendations", user, process_code, 404)
          ELSE IF ~resultFiles[process_code].results[1].has_risk_level
          THEN HTTPException("get_recommendations", user, process_code, 400)
          ELSE Outcome("get_recommendations", "",
                   Some(Response(user, process_code, 200,
                        Some([data |-> resultFiles[process_code].results[1],
                              file_info |-> db.uploads[process_code]]))))
    /\ UNCHANGED <<sigVars, mpVars, fitVars, validation, recommendations, callArgs,
                   smartVars, serverVars>>

\* DELETE /api/files/{process_code}: the uploaded file and the result file
\* are removed, then the uploads row, and with it the results rows of the
\* upload (ON DELETE CASCADE)
DeleteFile(user, process_code) ==
    /\ IF UploadNotFound(user, process_code)
       THEN /\ outcome' = HTTPException("delete_file", user, process_code, 404)
            /\ UNCHANGED serverVars
       ELSE /\ resultFiles' = [resultFiles EXCEPT ![process_code].results = None]
            /\ db' = [db EXCEPT !.uploads[process_code] = None,
                                !.results[process_code] = {}]
            /\ outcome' = Outcome("delete_file", "",
                                  Some(Response(user, process_code, 200,
                                                Some([status |-> "deleted"]))))
    /\ UNCHANGED <<sigVars, mpVars, fitVars, validation, recommendations, callArgs,
                   smartVars>>

ServerNext ==
    \/ \E user \in Users, process_code \in ProcessCodes :
          UploadFile(user, process_code)
    \/ \E user \in Users, process_code \in ProcessCodes :
          GetFileInfo(user, process_code)
    \/ \E user \in Users, process_code \in ProcessCodes, is_valid \in BOOLEAN :
          ValidateFile(user, process_code, is_valid)
    \/ \E user \in Users, process_code \in ProcessCodes, run \in ProcessRuns,
          churn_count \in {1} :
          ProcessFile(user, process_code, run, churn_count)
    \/ \E user \in Users, process_code \in ProcessCodes :
          GetResults(user, process_code)
    \/ \E user \in Users, process_code \in ProcessCodes :
          ExportResults(user, process_code)
    \/ \E user \in Users, process_code \in ProcessCodes :
          GetRecommendations(user, process_code)
    \/ \E user \in Users, process_code \in ProcessCodes :
          DeleteFile(user, process_code)

(***************************************************************************)
(* Specifications                                                          *)
(***************************************************************************)

\* The state at start, given the validate call to be made, the arguments of
\* the mapper or detector calls to be made (None when the component is not
\* in use) and the registry document on disk, if any.
InitState(validate_call, call_args, registry_document) ==
    /\ cs = NewCustomerSignals(None)
    /\ detector = NewSignalDetector(None)
    /\ mp = NewModelPipeline
    /\ files = [path \in Paths \cup DomainPaths |-> None]
    /\ saves = 0
    /\ preprocessor = NewPreprocessor
    /\ engine = NewRecommendationEngine(None)
    /\ validation = validate_call
    /\ recommendations = NewCustomerRecommendations(None)
    /\ callArgs = call_args
    /\ registry = <<>>
    /\ registryFile = registry_document
    /\ db = NewDatabase
    /\ resultFiles = [code \in ProcessCodes |-> [results |-> None, export |-> None]]
    /\ outcome = Outcome("init", "", None)

\* The state after construction, given the validate call to be made (None
\* when the validator is not in use).
InitWith(call) == InitState(call, None, None)

Init == InitWith(None)

\* Registry documents found in model_registry.json at start: one entry, with
\* any column list, target name ("" when the key is absent) and feature
\* count (0 when the key is absent).
RegistryColumns ==
    {Columns(ds) : ds \in SmartDatasets}
        \cup {<<>>, <<"customerID", "tenure">>,
              <<"customerID", "tenure", "PhoneService", "MonthlyCharges",
                "TotalCharges", "Churn">>}

RegistryDocuments ==
    {<<[name |-> "Telecom",
        info |-> [model_path |-> ModelPathOf("Telecom"),
                  preprocessor_path |-> PreprocessorPathOf("Telecom"),
                  columns |-> columns, target |-> target, n_features |-> n_features]]>> :
        columns \in RegistryColumns,
        target \in {"", "Churn", "churn", "Exited"},
        n_features \in {0, 3, 5, 6}}

\* The state at start with a registry document on disk.
RegistryInit ==
    \E document \in RegistryDocuments : InitState(None, None, Some(document))

\* The state at start with a map_columns call to make.
MapperInit == \E call \in MapCalls : InitState(None, Some(call), None)

\* The state at start with a batch of outputs to summarise.
StatisticsInit ==
    \E batch \in Batches : InitState(None, Some([recommendations |-> batch]), None)

\* The state at start with a frame to score and export.
ExportInit == \E call \in ExportCalls : InitState(None, Some(call), None)

\* The state at start with two datasets to validate.
QualityInit == \E pair \in QualityPairs : InitState(None, Some(pair), None)

\* The state at start with the engine calls to make.
RecommendInit == \E call \in RecommendCalls : InitState(None, Some(call), None)

\* The state at start with the detector calls to make.
SignalCallInit == \E call \in SignalCalls : InitState(None, Some(call), None)

\* Loading a registry and analysing datasets against it.
CompatibilityNext ==
    \/ SmartConstruct
    \/ \E ds \in SmartDatasets : SmartAnalyze(ds)

ValidatorInit == \E call \in ValidationCalls : InitWith(Some(call))

\* Direct use of a CustomerSignals object.
SpecCustomerSignals == Init /\ [][CSNext]_vars

\* A SignalDetector and the records it is asked about.
SpecDetector == Init /\ [][DetectorNext]_vars

\* One ModelPipeline trained on one dataset after another.
SpecTraining == Init /\ [][TrainingNext]_vars

\* ModelPipeline artifacts written to and read from disk.
SpecArtifacts == Init /\ [][ArtifactsNext]_vars

\* SchemaValidator.validate applied to datasets and mappings.
SpecValidator == ValidatorInit /\ [][ValidatorNext]_vars

\* A SmartPipeline analysing datasets and training models for them.
SpecSmart == Init /\ [][SmartNext]_vars

\* Validator and SmartPipeline picking the label column of a dataset.
SpecLabel == Init /\ [][LabelNext]_vars

\* A SmartPipeline scoring datasets against the registry it found on disk.
SpecCompatibility == RegistryInit /\ [][CompatibilityNext]_vars

\* A CustomerRecommendations object filled by the generator and by hand.
SpecRecommendations == Init /\ [][RecommendationsNext]_vars

\* ColumnMapper.map_columns applied to frames, modes, overrides and answers
\* of the semantic collaborator.
SpecMapper == MapperInit /\ [][MapperNext]_vars

\* Summary statistics of a batch of recommendation outputs.
SpecStatistics == StatisticsInit /\ [][StatisticsNext]_vars

\* Scoring a frame and exporting the scored records.
SpecExport == ExportInit /\ [][ExportNext]_vars

\* Validating two datasets that differ in their missing cells.
SpecQuality == QualityInit /\ [][QualityNext]_vars

\* Mapping a frame and validating it with the mapping.
SpecMapValidate == MapperInit /\ [][MapValidateNext]_vars

\* A detector fitted on one training set and asked about one record.
SpecSignalCall == SignalCallInit /\ [][SignalCallNext]_vars

\* The server's uploads, results and result files under requests of two
\* users.
SpecServer == Init /\ [][ServerNext]_vars

\* An engine fitted on one training set and asked about one customer.
SpecRecommend == RecommendInit /\ [][RecommendNext]_vars

\* Pipeline, preprocessor and recommendation engine, fitted or not.
SpecFitted == Init /\ [][FittedNext]_vars

(***************************************************************************)
(* Claims: CustomerSignals and SignalDetector                              *)
(***************************************************************************)

\* The CustomerSignals the last detect_signals call returned, if it returned.
Detected == outcome.op = "detect_signals" /\ outcome.value # None
DetectedSignals == outcome.value[1]

\* Rank of a tier in low < medium < high < critical.
TierRank(level) ==
    CASE level = "low" -> 1 [] level = "medium" -> 2
      [] level = "high" -> 3 [] level = "critical" -> 4

\* C1: when detect_signals is given a churn probability p, the returned
\* overall_risk is critical for p >= 0.70, high for 0.50 <= p < 0.70, medium
\* for 0.25 <= p < 0.50 and low for p < 0.25, whatever signals were detected.
C1_RiskFromProbabilityOnly ==
    (Detected /\ DetectedSignals.churn_probability # None) =>
        LET p == DetectedSignals.churn_probability[1]
            risk == DetectedSignals.overall_risk
        IN /\ (p >= 70) => risk = "critical"
           /\ (p >= 50 /\ p < 70) => risk = "high"
           /\ (p >= 25 /\ p < 50) => risk = "medium"
           /\ (p < 25) => risk = "low"

\* C1 witness: a low-probability record with four or more signals, one of
\* them of tier high, is still reported low.
C1_Witness ==
    /\ Detected
    /\ DetectedSignals.churn_probability = Some(24)
    /\ Len(DetectedSignals.signals) >= 4
    /\ \E i \in 1..Len(DetectedSignals.signals) :
           DetectedSignals.signals[i].risk_level = "high"
    /\ DetectedSignals.overall_risk = "low"

\* C2: overall_risk of a CustomerSignals object always equals the tier
\* derived from its current churn_probability and signals.
C2_RiskNeverStale ==
    cs.overall_risk = UpdateOverallRisk(cs).overall_risk

\* Highest tier rank among the signals, 1 (low) when there are none.
HighestRank(signals) ==
    LET ranks == {TierRank(signals[i].risk_level) : i \in 1..Len(signals)} \cup {1}
    IN CHOOSE r \in ranks : \A q \in ranks : q <= r

\* C3: without a churn probability, overall_risk after detect_signals is the
\* highest tier among the detected signals (low when there are none), one
\* level higher when four or more signals fired, and never above critical.
C3_RiskFromSignals ==
    (Detected /\ DetectedSignals.churn_probability = None) =>
        LET signals == DetectedSignals.signals
            top == HighestRank(signals)
            expected == IF Len(signals) >= 4
                        THEN (IF top = 4 THEN 4 ELSE top + 1)
                        ELSE top
        IN TierRank(DetectedSignals.overall_risk) = expected

\* C3 witness: no probability, exactly four signals of tier at most high,
\* reported one level above the highest of them.
C3_Witness ==
    /\ Detected
    /\ DetectedSignals.churn_probability = None
    /\ Len(DetectedSignals.signals) = 4
    /\ TierRank(DetectedSignals.overall_risk)
           = HighestRank(DetectedSignals.signals) + 1

\* C6: detect_signals on a detector whose thresholds were never computed
\* raises instead of returning a CustomerSignals.
C6_DetectBeforeThresholdsRaises ==
    (outcome.op = "detect_signals" /\ detector.thresholds = EmptyThresholds)
        => outcome.raised # ""

(***************************************************************************)
(* Claims: ModelPipeline                                                   *)
(***************************************************************************)

\* C5: a train call that raises leaves the pipeline's fitted state
\* (mapping_result, preprocessor, classifier, trained flag) exactly as it was
\* before the call.
C5_TrainFailsAtomically ==
    [][(outcome'.op = "train" /\ outcome'.raised # "") => mp' = mp]_vars

\* C4: every pipeline returned by load holds a classifier/mapping and a
\* preprocessor written by the same save call.
C4_LoadedFromOneSave ==
    (outcome.op = "load" /\ outcome.raised = "")
        => outcome.value[1].model_written_by = outcome.value[1].preprocessor_written_by

\* C7: predict, transform and recommend raise their precondition error while
\* the object is not trained/fitted, and an object becomes trained/fitted only
\* in a train/fit call that returned (or, for the pipeline, in a load that
\* returned): a train or fit call that raised enables nothing.
C7_UseBeforeFitRejected ==
    [][/\ (outcome'.op = "predict" /\ ~mp.is_trained)
            => outcome'.raised = "ValueError: Model not trained"
       /\ (mp'.is_trained /\ ~mp.is_trained)
            => (outcome'.op \in {"train", "load"} /\ outcome'.raised = "")
       /\ (outcome'.op = "transform" /\ ~preprocessor.is_fitted)
            => outcome'.raised = "ValueError: Preprocessor not fitted"
       /\ (preprocessor'.is_fitted /\ ~preprocessor.is_fitted)
            => (outcome'.op = "fit" /\ outcome'.raised = "")
       /\ (outcome'.op = "recommend" /\ ~engine.is_fitted)
            => outcome'.raised = "ValueError: Engine not fitted"
       /\ (engine'.is_fitted /\ ~engine.is_fitted)
            => (outcome'.op = "engine_fit" /\ outcome'.raised = "")]_vars

\* predict rejected after a train call that raised in the classifier's fit
\* and left an unfitted classifier and a fitted preprocessor behind.
C7_Witness ==
    /\ outcome.op = "predict"
    /\ outcome.raised = "ValueError: Model not trained"
    /\ mp.model # None
    /\ mp.preprocessor.is_fitted

(***************************************************************************)
(* Claims: SchemaValidator                                                 *)
(***************************************************************************)

Validated == outcome.op = "validate" /\ outcome.raised = ""
ValidationOf == outcome.value[1]
MessagesAbout(messages, kind, role) ==
    {i \in DOMAIN messages : messages[i] = Message(kind, role)}

\* C8: validate returns is_valid = FALSE exactly when the returned errors
\* list is non-empty, whatever warnings it returns.
C8_InvalidIffErrors ==
    Validated => ((ValidationOf.is_valid = FALSE) <=> (ValidationOf.errors # <<>>))

\* A result with a missing recommended role, a non-binary label, data-quality
\* findings and fewer than 100 rows among its warnings, and no error.
C8_Witness ==
    /\ Validated
    /\ ValidationOf.is_valid
    /\ ValidationOf.errors = <<>>
    /\ {Message("missing_recommended", "contract"), Message("class_imbalance", ""),
        Message("high_missing_rate", ""), Message("duplicate_rows", ""),
        Message("negative_values", "tenure"), Message("few_rows", "")}
          \subseteq {ValidationOf.warnings[i] : i \in DOMAIN ValidationOf.warnings}

\* C9: a missing required role is an error naming the role; a missing
\* recommended role is a warning when strict is false and an error when
\* strict is true; a role the mapping has is named by neither.
C9_RolesReported ==
    Validated =>
        LET mapped == MappedTypes(validation[1].mappings)
            strict == validation[1].strict
            errors(kind, role) == MessagesAbout(ValidationOf.errors, kind, role)
            warnings(kind, role) == MessagesAbout(ValidationOf.warnings, kind, role)
            unnamed(role) ==
                \A kind \in {"missing_required", "missing_recommended"} :
                    errors(kind, role) = {} /\ warnings(kind, role) = {}
        IN /\ \A role \in {"target", "tenure"} :
                IF role \in mapped THEN unnamed(role)
                ELSE /\ Cardinality(errors("missing_required", role)) = 1
                     /\ ~ValidationOf.is_valid
                     /\ warnings("missing_required", role) = {}
           /\ \A role \in {"cost_monthly", "contract"} :
                IF role \in mapped THEN unnamed(role)
                ELSE IF strict
                THEN /\ Cardinality(errors("missing_recommended", role)) = 1
                     /\ ~ValidationOf.is_valid
                     /\ warnings("missing_recommended", role) = {}
                ELSE /\ Cardinality(warnings("missing_recommended", role)) = 1
                     /\ errors("missing_recommended", role) = {}

\* The same mapping, lacking tenure and contract, validated strictly.
C9_Witness ==
    /\ Validated
    /\ validation[1].strict
    /\ MappedTypes(validation[1].mappings) = {"id", "target", "cost_monthly"}
    /\ ValidationOf.errors =
          <<Message("missing_required", "tenure"), Message("missing_recommended", "contract")>>

(***************************************************************************)
(* Claims: SmartPipeline                                                   *)
(***************************************************************************)

Analyzed == outcome.op = "analyze" /\ outcome.raised = ""
DecisionOf == outcome.value[1].decision
ScoreOf(i) == calculate_compatibility(outcome.value[1].df, registry[i].info)

\* C10: analyze decides train when no column has the target role; otherwise,
\* for a registered domain of highest compatibility score, predict with that
\* domain's model path when the score is at least 0.70, retrain when it is in
\* [0.40, 0.70), and train when it is below 0.40 or the registry is empty.
C10_DecisionByBestScore ==
    Analyzed =>
        IF FirstTarget(outcome.value[1].df) = None \/ registry = <<>>
        THEN DecisionOf.action = "train"
        ELSE \E i \in DOMAIN registry :
                /\ \A j \in DOMAIN registry : FracGE(ScoreOf(i), ScoreOf(j))
                /\ IF FracGE(ScoreOf(i), Frac(7, 10))
                   THEN /\ DecisionOf.action = "predict"
                        /\ DecisionOf.domain_match = Some(registry[i].name)
                        /\ DecisionOf.model_path = Some(registry[i].info.model_path)
                   ELSE IF FracGE(ScoreOf(i), Frac(4, 10))
                   THEN DecisionOf.action = "retrain"
                   ELSE DecisionOf.action = "train"

\* Two registered domains, and a dataset whose best score is exactly 0.70:
\* the decision is predict.
C10_Witness ==
    /\ Analyzed
    /\ Len(registry) = 2
    /\ DecisionOf.action = "predict"
    /\ FracGE(Frac(7, 10), DecisionOf.confidence)

\* A SmartPipeline.run call has just returned.
RunReturned == outcome.op = "run" /\ outcome.raised = "" /\ outcome.value # None

\* C11: a run without force_train on a dataset whose decision is retrain
\* (best score in [0.40, 0.70)) only recommends training: it returns without
\* having trained, writes no artifact file and leaves the registry as it was.
C11_RetrainOnlyRecommends ==
    [][\A ds \in SmartDatasets :
          (/\ outcome'.op = "run" /\ outcome'.raised = "" /\ outcome'.value # None
           /\ outcome'.value[1].df = ds
           /\ ~outcome'.value[1].force_train
           /\ analyze(registry, ds).action = "retrain")
          => /\ outcome'.value[1].action # "trained"
             /\ files' = files
             /\ registry' = registry
             /\ registryFile' = registryFile]_vars

\* The registry entries under a domain name.
EntriesOf(models, name) ==
    {models[i].info : i \in {j \in DOMAIN models : models[j].name = name}}

\* The step wrote both artifact files of the domain: its training succeeded.
TrainedNow(domain) ==
    /\ saves' = saves + 1
    /\ files'[ModelPathOf(domain)] # None
    /\ files'[ModelPathOf(domain)][1].written_by = saves'
    /\ files'[PreprocessorPathOf(domain)] # None
    /\ files'[PreprocessorPathOf(domain)][1].written_by = saves'

\* C12: the registry never holds two entries of one domain name, and over
\* every run of the pipeline, forced or not, the entry of each domain name
\* is replaced by the description of the dataset just trained on (columns,
\* target column, feature count, artifact locations) when the run's training
\* for that name succeeded, and is otherwise what it was before the run: a
\* failed training and a run that predicts change nothing.  A run that
\* returns after training has also written the registry to its file.
C12_RegistryTracksTrainings ==
    /\ [](\A i, j \in DOMAIN registry :
             registry[i].name = registry[j].name => i = j)
    /\ [][outcome'.op = "run" =>
            /\ \A domain \in Domains :
                  IF TrainedNow(domain)
                  THEN LET df == files'[ModelPathOf(domain)][1].mapping_result[1]
                       IN EntriesOf(registry', domain) =
                              {[model_path |-> ModelPathOf(domain),
                                preprocessor_path |-> PreprocessorPathOf(domain),
                                columns |-> Columns(df),
                                target |-> TargetColumns(df)[1],
                                n_features |-> Len(Columns(df))]}
                  ELSE EntriesOf(registry', domain) = EntriesOf(registry, domain)
            /\ (outcome'.raised = "" /\ outcome'.value[1].action = "trained")
                  => /\ TrainedNow(outcome'.value[1].domain)
                     /\ outcome'.value[1].df =
                            files'[outcome'.value[1].model_path][1].mapping_result[1]
                     /\ registryFile' = Some(registry')
            /\ (outcome'.raised = "" /\ outcome'.value[1].action = "predicted")
                  => registry' = registry /\ files' = files]_vars

\* A run returns from training on the telco dataset and overwrites the
\* Telecom entry, registered before the second entry of the registry.
C12_Witness ==
    /\ RunReturned
    /\ outcome.value[1].action = "trained"
    /\ outcome.value[1].df = "telco"
    /\ Len(registry) = 2
    /\ registry[1].name = "Telecom"
    /\ registry[1].info.columns = Columns("telco")
    /\ saves = 3

\* C13: the compatibility score of every dataset against every registered
\* entry is in [0,1], and it is exactly 1 when the dataset has the entry's
\* column set, its target column name up to case, and its feature count.
C13_ScoreBounds ==
    Analyzed =>
        \A i \in DOMAIN registry :
           LET df == outcome.value[1].df
               entry == registry[i].info
           IN /\ ScoreOf(i)[2] > 0
              /\ FracGE(ScoreOf(i), Frac(0, 1))
              /\ FracGE(Frac(1, 1), ScoreOf(i))
              /\ (/\ SeqToSet(Columns(df)) = SeqToSet(entry.columns)
                  /\ FirstTarget(df) # None
                  /\ Lower(FirstTarget(df)[1]) = Lower(entry.target)
                  /\ Len(Columns(df)) = entry.n_features)
                 => ScoreOf(i) = Frac(ScoreOf(i)[2], ScoreOf(i)[2])

\* The telco dataset scored against an entry with its columns and feature
\* count whose registered target name differs in case only: the score is 1.
C13_Witness ==
    /\ Analyzed
    /\ registry # <<>>
    /\ outcome.value[1].df = "telco"
    /\ registry[1].info.columns = Columns("telco")
    /\ registry[1].info.target = "churn"
    /\ registry[1].info.n_features = 5
    /\ ScoreOf(1)[1] = ScoreOf(1)[2]

(***************************************************************************)
(* Claims: CustomerRecommendations and ActionGenerator                     *)
(***************************************************************************)

\* The signals of a customer holding the given list.
SignalsOf(signals) ==
    UpdateOverallRisk([NewCustomerSignals(None) EXCEPT !.signals = signals])

\* C14: the actions of a CustomerRecommendations filled through add_action
\* have pairwise different descriptions, and generate_actions returns as
\* many actions for a signal list repeated twice as for the list once.
C14_NoDuplicateDescriptions ==
    /\ \A i, j \in DOMAIN recommendations.actions :
          recommendations.actions[i].description
              = recommendations.actions[j].description => i = j
    /\ outcome.op = "generate_actions" =>
          LET signals == outcome.value[1]
          IN /\ Len(generate_actions(SignalsOf(signals \o signals)).actions)
                   = Len(recommendations.actions)
             /\ Len(generate_actions(SignalsOf(signals)).actions)
                   = Len(recommendations.actions)

\* generate_actions has given the two actions of a low_tenure signal; an
\* add_action of an urgent action with the description of one of them was
\* then skipped.
C14_Witness ==
    /\ outcome.op = "add_action"
    /\ Len(recommendations.actions) = 2
    /\ \E i \in DOMAIN recommendations.actions :
          /\ recommendations.actions[i].description = outcome.value[1].description
          /\ recommendations.actions[i].action_type = "low_tenure"
          /\ recommendations.actions[i].priority = "high"
          /\ outcome.value[1].priority = "urgent"

\* The order of the action priorities, and the priority of a risk tier.
PriorityRank(priority) ==
    CASE priority = "low" -> 1
      [] priority = "medium" -> 2
      [] priority = "high" -> 3
      [] priority = "urgent" -> 4

PriorityOfTier(level) ==
    CASE level = "low" -> "low"
      [] level = "medium" -> "medium"
      [] level = "high" -> "high"
      [] level = "critical" -> "urgent"

\* C15: priority_level is the highest priority among the actions kept, low
\* when there is none; and every action generate_actions made comes from a
\* signal of its type whose risk tier maps to the action's priority by
\* low->low, medium->medium, high->high, critical->urgent.
C15_PriorityIsMaxOfKept ==
    /\ IF recommendations.actions = <<>>
       THEN recommendations.priority_level = "low"
       ELSE /\ \E i \in DOMAIN recommendations.actions :
                  recommendations.actions[i].priority = recommendations.priority_level
            /\ \A i \in DOMAIN recommendations.actions :
                  PriorityRank(recommendations.actions[i].priority)
                      <= PriorityRank(recommendations.priority_level)
    /\ outcome.op = "generate_actions" =>
          \A i \in DOMAIN recommendations.actions :
             \E k \in DOMAIN outcome.value[1] :
                /\ outcome.value[1][k].signal_type
                       = recommendations.actions[i].signal_type
                /\ PriorityOfTier(outcome.value[1][k].risk_level)
                       = recommendations.actions[i].priority

\* The two urgent actions of a critical signal are followed by an action of
\* low priority added by hand: the level stays urgent.
C15_Witness ==
    /\ outcome.op = "add_action"
    /\ Len(recommendations.actions) = 3
    /\ recommendations.actions[1].signal_type = "high_churn_probability"
    /\ recommendations.actions[1].priority = "urgent"
    /\ recommendations.actions[3] = outcome.value[1]
    /\ recommendations.actions[3].priority = "low"
    /\ recommendations.priority_level = "urgent"

(***************************************************************************)
(* Claims: ColumnMapper                                                    *)
(***************************************************************************)

\* A map_columns call has ended; its arguments, its result, its overrides.
Mapped == outcome.op = "map_columns"
MapArgs == callArgs[1]
MapResult == outcome.value[1]
Overrides ==
    IF MapArgs.manual_mappings = None THEN <<>> ELSE MapArgs.manual_mappings[1]

\* The overrides that name a column of the frame with a role that exists.
Effective(i) ==
    /\ Overrides[i][1] \in SeqToSet(MapArgs.df)
    /\ Overrides[i][2] \in ColumnTypeValues

\* C16: in manual mode map_columns returns, whatever the override table
\* (none and an empty one included); the mapped columns are exactly the
\* frame's columns the overrides name with a role that exists, all with
\* method manual; every other column of the frame is listed as unmapped;
\* an unknown role and a column not in the frame each give a warning.
C16_ManualMapsOnlyOverrides ==
    (Mapped /\ MapArgs.mode = "manual") =>
        /\ outcome.raised = ""
        /\ {MapResult.mappings[k].source_column : k \in DOMAIN MapResult.mappings}
               = {Overrides[i][1] : i \in {j \in DOMAIN Overrides : Effective(j)}}
        /\ \A k \in DOMAIN MapResult.mappings :
              MapResult.mappings[k].detection_method = "manual"
        /\ MapResult.unmapped_columns =
               SelectSeq(MapArgs.df, LAMBDA col : ~IsMapped(MapResult.mappings, col))
        /\ \A i \in DOMAIN Overrides :
              ~Effective(i) =>
                 \E w \in DOMAIN MapResult.warnings :
                    MapResult.warnings[w].col = Overrides[i][1]

\* C17: in manual and hybrid mode, when map_columns returns, every override
\* of a column of the frame with a role that exists is the final mapping of
\* that column: that role, confidence exactly 1, method manual.
C17_ManualOverridesWin ==
    (Mapped /\ outcome.raised = "" /\ MapArgs.mode \in {"manual", "hybrid"}) =>
        \A i \in DOMAIN Overrides :
           Effective(i) =>
              /\ IsMapped(MapResult.mappings, Overrides[i][1])
              /\ LET m == MappingOf(MapResult.mappings, Overrides[i][1])
                 IN /\ m.target_type = Overrides[i][2]
                    /\ m.confidence[1] = m.confidence[2]
                    /\ m.detection_method = "manual"

\* Hybrid mode on the telco frame: tenure, matched by keyword at 0.95, and
\* Region, given the role contract by the collaborator, are both overridden
\* to cost_total.
C17_Witness ==
    /\ Mapped /\ outcome.raised = ""
    /\ MapArgs.mode = "hybrid"
    /\ MapArgs.use_llm /\ MapArgs.llm.available
    /\ MapArgs.llm.response.kind = "json"
    /\ MapArgs.llm.response.suggestions.items = <<<<"Region", "contract">>>>
    /\ Overrides = <<<<"tenure", "cost_total">>, <<"Region", "cost_total">>>>
    /\ keyword_match("tenure")[1].target_type = "tenure"
    /\ MappingOf(MapResult.mappings, "tenure").target_type = "cost_total"
    /\ MappingOf(MapResult.mappings, "Region").detection_method = "manual"

\* The collaborator gave a role that exists for the column, and was asked.
UsableSuggestion(col) ==
    /\ MapArgs.use_llm /\ MapArgs.llm.available
    /\ MapArgs.llm.response.kind = "json"
    /\ MapArgs.llm.response.suggestions.shape = "dict"
    /\ \E k \in DOMAIN MapArgs.llm.response.suggestions.items :
          /\ MapArgs.llm.response.suggestions.items[k][1] = col
          /\ MapArgs.llm.response.suggestions.items[k][2] \in ColumnTypeValues

\* C18: in auto mode map_columns returns whatever the collaborator answers,
\* and each column without a usable suggestion keeps what keyword matching
\* or type inference gave it, mapped or not.
C18_CollaboratorNeverBreaksMapping ==
    (Mapped /\ MapArgs.mode = "auto") =>
        /\ outcome.raised = ""
        /\ \A c \in DOMAIN MapArgs.df :
              LET col == MapArgs.df[c]
                  detected == DetectColumns(<<>>, MapArgs.df)
              IN ~UsableSuggestion(col) =>
                    /\ IsMapped(MapResult.mappings, col) = IsMapped(detected, col)
                    /\ IsMapped(detected, col) =>
                          MappingOf(MapResult.mappings, col) = MappingOf(detected, col)

(***************************************************************************)
(* Claims: SignalDetector on one record                                    *)
(***************************************************************************)

\* detect_signals has ended for the record chosen at start.
Asked == callArgs # None /\ outcome.op = "detect_signals"
AskedRow == callArgs[1].row
RoleColumns(types) == SeqToSet(ColumnsByType(detector.mapping_result, types))

\* The result holds a signal of the type and tier about the column.
HasSignal(type, level, col) ==
    \E i \in DOMAIN outcome.value[1].signals :
       /\ outcome.value[1].signals[i].signal_type = type
       /\ outcome.value[1].signals[i].risk_level = level
       /\ outcome.value[1].signals[i].column_involved = Some(col)

\* C19: detect_signals returns whatever the cost-role and tenure-role cells
\* of the record hold, and a cell that is not a number after coercion
\* (whitespace, other text, missing) gives no signal about its column.
C19_TextNeverRaises ==
    Asked =>
        /\ outcome.raised = ""
        /\ \A col \in RoleColumns({"cost_monthly", "cost_total", "tenure"})
                          \cap DOMAIN AskedRow :
              ToNumericCell(AskedRow[col]).k # "num" =>
                 \A i \in DOMAIN outcome.value[1].signals :
                    outcome.value[1].signals[i].column_involved # Some(col)

\* C20: when detect_signals returns, a tenure-role column with a low
\* threshold has a low_tenure signal of tier high exactly when the record's
\* value is a number strictly below the threshold, and a cost-role column
\* with a high threshold has a high_cost signal of tier medium exactly when
\* the record's coerced value is a number strictly above the threshold; a
\* value equal to the threshold gives neither.
C20_StrictThresholds ==
    (Asked /\ outcome.raised = "") =>
        /\ \A col \in RoleColumns({"tenure"}) \cap DOMAIN AskedRow :
              col \in DOMAIN detector.thresholds.low =>
                 (HasSignal("low_tenure", "high", col)
                    <=> /\ AskedRow[col].k = "num"
                        /\ 4 * AskedRow[col].n < detector.thresholds.low[col])
        /\ \A col \in RoleColumns({"cost_monthly", "cost_total"}) \cap DOMAIN AskedRow :
              col \in DOMAIN detector.thresholds.high =>
                 (HasSignal("high_cost", "medium", col)
                    <=> /\ ToNumericCell(AskedRow[col]).k = "num"
                        /\ 4 * ToNumericCell(AskedRow[col]).n
                               > detector.thresholds.high[col])

\* A record whose tenure equals the low threshold and whose monthly cost,
\* given as text, equals the high threshold: neither signal fires.
C20_Witness ==
    /\ Asked /\ outcome.raised = ""
    /\ callArgs[1].mapping_result = TelcoMapping
    /\ AskedRow.months = Num(3)
    /\ "months" \in DOMAIN detector.thresholds.low
    /\ detector.thresholds.low["months"] = 12
    /\ AskedRow.monthly_fee = Str("3")
    /\ "monthly_fee" \in DOMAIN detector.thresholds.high
    /\ detector.thresholds.high["monthly_fee"] = 12
    /\ ~HasSignal("low_tenure", "high", "months")
    /\ ~HasSignal("high_cost", "medium", "monthly_fee")

\* The binary-role columns of the record that are popular in the training
\* data of the call (more than half of the training cells are yes, 1 or
\* true, case-folded) and that the record lacks (no, 0, false, none or
\* empty, case-folded).
PopularLacked ==
    {col \in RoleColumns({"binary"}) \cap DOMAIN AskedRow :
        /\ col \in DOMAIN callArgs[1].df
        /\ LET column == callArgs[1].df[col]
               adopters == {i \in DOMAIN column :
                               Lower(StrOf(column[i])) \in {"yes", "1", "true"}}
           IN 2 * Cardinality(adopters) > Len(column)
        /\ Lower(StrOf(AskedRow[col])) \in {"no", "0", "false", "none", ""}}

MissingFeatureSignals ==
    {i \in DOMAIN outcome.value[1].signals :
        outcome.value[1].signals[i].signal_type = "missing_features"}

\* C21: when detect_signals returns, the result holds a missing_features
\* signal exactly when the record lacks at least two popular binary-role
\* columns; the signal is of tier medium and there is at most one of it.
\* One lacked popular column, and lacked columns with an adoption rate of
\* 0.5 or less, give none.
C21_MissingFeaturesFromTwo ==
    (Asked /\ outcome.raised = "") =>
        /\ (MissingFeatureSignals # {}) <=> (Cardinality(PopularLacked) >= 2)
        /\ Cardinality(MissingFeatureSignals) <= 1
        /\ \A i \in MissingFeatureSignals :
              outcome.value[1].signals[i].risk_level = "medium"

\* A record lacking both popular columns, one of them by the value 0: the
\* signal is there.
C21_Witness ==
    /\ Asked /\ outcome.raised = ""
    /\ AskedRow.backup = Str("No") /\ AskedRow.support = Num(0)
    /\ PopularLacked = {"backup", "support"}
    /\ Cardinality(MissingFeatureSignals) = 1

(***************************************************************************)
(* Claims: mapping and validating one frame                                *)
(***************************************************************************)

\* validate has ended on the frame CustomerID, tenure, MonthlyCharges,
\* Contract, Churn mapped in auto mode without a collaborator.
CleanScenario ==
    /\ callArgs # None
    /\ outcome.op = "validate"
    /\ callArgs[1].df = <<"CustomerID", "tenure", "MonthlyCharges", "Contract", "Churn">>
    /\ callArgs[1].mode = "auto"
    /\ ~(callArgs[1].use_llm /\ callArgs[1].llm.available)

\* The mapping has the column in the role with a confidence of 0.7 or more.
ConfidentRole(mappings, col, role) ==
    \E i \in DOMAIN mappings :
       /\ mappings[i].source_column = col
       /\ mappings[i].target_type = role
       /\ FracGE(mappings[i].confidence, Frac(7, 10))

\* C22: on the clean frame mapped in auto mode without a collaborator the
\* columns get the roles id, tenure, cost_monthly, contract and target, each
\* with a confidence of 0.7 or more, and validate returns is_valid with no
\* errors.
C22_CleanScenarioConfident ==
    CleanScenario =>
        /\ outcome.raised = ""
        /\ outcome.value[1].is_valid
        /\ outcome.value[1].errors = <<>>
        /\ LET mappings == outcome.value[1].mapping_result[1].mappings
           IN /\ ConfidentRole(mappings, "CustomerID", "id")
              /\ ConfidentRole(mappings, "tenure", "tenure")
              /\ ConfidentRole(mappings, "MonthlyCharges", "cost_monthly")
              /\ ConfidentRole(mappings, "Contract", "contract")
              /\ ConfidentRole(mappings, "Churn", "target")

(***************************************************************************)
(* Claims: the data-quality score                                          *)
(***************************************************************************)

PairValidated == callArgs # None /\ outcome.op = "validate_pair"

\* quality_score times the number of cells of the dataset, as the model
\* keeps it.
ScaledScore(side) == outcome.value[1][side].data_quality_score

\* C23: of two datasets with the same duplicate-row penalty, one with at most
\* 20% of its cells missing and one with more, the second gets the strictly
\* lower quality_score, and both scores lie in 0..100.
C23_ScoreDropsAcrossTwentyPercent ==
    PairValidated =>
        LET below_cells == CellCount(callArgs[1].below)
            above_cells == CellCount(callArgs[1].above)
        IN /\ ScaledScore("above") * below_cells < ScaledScore("below") * above_cells
           /\ ScaledScore("below") >= 0 /\ ScaledScore("below") <= 100 * below_cells
           /\ ScaledScore("above") >= 0 /\ ScaledScore("above") <= 100 * above_cells

\* A dataset at exactly 20% and one a single cell above 20%, both with
\* duplicate rows: scores 77 and 76.9.
C23_Witness ==
    /\ PairValidated
    /\ callArgs[1].below.missing = 200 /\ CellCount(callArgs[1].below) = 1000
    /\ callArgs[1].above.missing = 201 /\ CellCount(callArgs[1].above) = 1000
    /\ callArgs[1].below.duplicates = 6
    /\ ScaledScore("below") = 77000
    /\ ScaledScore("above") = 76900

(***************************************************************************)
(* Claims: summary statistics                                              *)
(***************************************************************************)

Summarised == callArgs # None /\ outcome.op = "get_summary_statistics"

\* The probabilities (in percent) of the records of the batch that carry
\* one.
CarriedProbabilities ==
    LET batch == callArgs[1].recommendations
        carrying == SelectSeq(batch, LAMBDA r : r.churn_probability # None)
    IN [i \in DOMAIN carrying |-> carrying[i].churn_probability[1]]

\* C24: the mean churn probability of the statistics is the mean (rounded to
\* four decimals) over all records of the batch that carry a probability,
\* those with probability 0 included, and the count at or above 0.70 is
\* taken over the same records.
C24_MeanOverAllProbabilities ==
    (Summarised /\ outcome.raised = "" /\ CarriedProbabilities # <<>>) =>
        /\ outcome.value[1].avg_churn_probability
             = RoundDiv(100 * SumSeq(CarriedProbabilities), Len(CarriedProbabilities))
        /\ outcome.value[1].customers_above_70pct
             = Cardinality({i \in DOMAIN CarriedProbabilities :
                               CarriedProbabilities[i] >= 70})

(***************************************************************************)
(* Claims: exported records                                                *)
(***************************************************************************)

\* A scoring path has written its frame.
Exported ==
    /\ callArgs # None
    /\ outcome.op \in {"main.predict", "_run_prediction", "process_file"}
    /\ outcome.raised = ""

\* C25: a frame written by a scoring path has the input rows in input order
\* and, for each of them, the churn probability, the churn prediction, the
\* risk level, the rendered signals and the rendered recommendations.
C25_ExportedRecordSchema ==
    Exported =>
        LET output_df == outcome.value[1]
        IN /\ output_df.rows = callArgs[1].df
           /\ \A name \in {"Churn_Probability", "Churn_Prediction", "Risk_Level",
                           "Churn_Signals", "Recommendations"} :
                 /\ name \in DOMAIN output_df.added
                 /\ Len(output_df.added[name]) = Len(callArgs[1].df)

(***************************************************************************)
(* Claims: the label column                                                *)
(***************************************************************************)

\* C26: the column a returning training run registers as the target is the
\* column the preprocessor it saved records as target_column (the column
\* train encoded), and the column validate reads as the label is the column
\* build_pipeline records for the same mapping.
C26_OneLabelColumn ==
    /\ (outcome.op = "run" /\ outcome.raised = "") =>
          LET domain == outcome.value[1].domain
          IN Some(RegistryGet(registry, domain).target)
                = files[PreprocessorPathOf(domain)][1].target_column
    /\ (outcome.op = "validate" /\ outcome.raised = "") =>
          outcome.value[1].target_col
             = build_pipeline(NewPreprocessor, outcome.value[1].df).target_column

(***************************************************************************)
(* Claims: ColumnMapper, the partition of the columns                      *)
(***************************************************************************)

MappedColumns ==
    {MapResult.mappings[k].source_column : k \in DOMAIN MapResult.mappings}

\* C27: the MappingResult that map_columns returns partitions the frame's
\* columns: every key of mappings is a column of the frame, unmapped_columns
\* lists exactly the frame's columns that are not keys, and no column is in
\* both.
C27_MappingPartitionsColumns ==
    (Mapped /\ outcome.raised = "") =>
        /\ MappedColumns \subseteq SeqToSet(MapArgs.df)
        /\ SeqToSet(MapResult.unmapped_columns) = SeqToSet(MapArgs.df) \ MappedColumns
        /\ SeqToSet(MapResult.unmapped_columns) \cap MappedColumns = {}


\* The engine has returned a RecommendationOutput.
Recommended == outcome.op = "recommend" /\ outcome.raised = ""

\* C28: every RecommendationOutput whose risk_level is high or critical has
\* at least one recommended action, a priority of high or urgent, and a
\* summary other than the no-risk sentence.
C28_ElevatedRiskHasActions ==
    (Recommended /\ outcome.value[1].risk_level \in {"high", "critical"}) =>
        /\ outcome.value[1].recommendations # <<>>
        /\ outcome.value[1].priority \in {"high", "urgent"}
        /\ outcome.value[1].summary.kind # "no_risk"


\* The registry holds, under the dataset's domain, the entry that training on
\* the dataset wrote, and the dataset has a detected target column.
TrainedEntry(ds) ==
    /\ FirstTarget(ds) # None
    /\ \E i \in DOMAIN registry :
          /\ registry[i].name = detect_domain(ds)
          /\ registry[i].info = RegisteredInfo(ds, detect_domain(ds))

\* The decision to predict with the model of the dataset's own domain, at
\* confidence 1.0.
PredictsWithOwnModel(ds, decision) ==
    /\ decision.action = "predict"
    /\ decision.domain_match = Some(detect_domain(ds))
    /\ decision.model_path = Some(ModelPathOf(detect_domain(ds)))
    /\ decision.confidence[1] = decision.confidence[2]

\* C29: once a SmartPipeline has trained on a dataset with a detected target
\* column, and for as long as the registry entry of that domain is the one
\* this training wrote, analyze on the same dataset returns predict with the
\* domain just registered, that entry's model path and confidence 1.0.
C29_TrainThenDecide ==
    /\ \A ds \in SmartDatasets :
          TrainedEntry(ds) => PredictsWithOwnModel(ds, analyze(registry, ds))
    /\ (outcome.op = "analyze" /\ TrainedEntry(outcome.value[1].df)) =>
          PredictsWithOwnModel(outcome.value[1].df, outcome.value[1].decision)

\* analyze is called on a dataset trained on earlier, with the model of
\* another domain registered after it.
C29_Witness ==
    /\ outcome.op = "analyze"
    /\ TrainedEntry(outcome.value[1].df)
    /\ Len(registry) >= 2
    /\ registry[1].name = detect_domain(outcome.value[1].df)
    /\ outcome.value[1].decision.action = "predict"


\* The endpoints that take a process code.
ProcessCodeEndpoints ==
    {"get_file_info", "validate_file", "process_file", "get_results",
     "export_results", "get_recommendations", "delete_file"}

\* The last request went to an endpoint with a process code, for an upload
\* that another user owns.
RequestByOtherUser ==
    /\ outcome.op \in ProcessCodeEndpoints
    /\ db.uploads[outcome.value[1].process_code] # None
    /\ db.uploads[outcome.value[1].process_code][1].user_id # outcome.value[1].user

\* C30: a request to an endpoint with a process code by a user who does not
\* own the upload gets 404 and no body.
C30_OnlyOwnerIsServed ==
    RequestByOtherUser =>
        /\ outcome.raised = "HTTPException"
        /\ outcome.value[1].status_code = 404
        /\ outcome.value[1].body = None

====
